---- MODULE Spec2Model ----
(***************************************************************************)
(* A model of the NaCl files source of the workspace package               *)
(* (packages/workspace/src/workspace/nacl_files/nacl_files_source.ts):     *)
(* the snapshot (NaclFilesState) held in the closure variable `state`, the *)
(* pure function buildNaclFilesState that computes the next snapshot, and  *)
(* the asynchronous calls (setNaclFiles, removeNaclFiles, updateNaclFiles, *)
(* clear, the reads) stepping from one await to the next.                  *)
(***************************************************************************)
EXTENDS Naturals, Sequences, FiniteSets, TLC

(***************************************************************************)
(* Bounds of the model.                                                    *)
(***************************************************************************)
\* number of operations submitted through the workspace operation wrapper
MaxCalls == 3

\* number of calls made on the source alone, which may all overlap
MaxOverlap == 2

(***************************************************************************)
(* The data: filenames, buffers, elements.                                 *)
(***************************************************************************)
Files == {"f1", "f2"}

\* the top-level identities (ElemID full names): a type and an instance of it
TypeID == "t"
InstID == "t.instance.i"
ElemIDs == {TypeID, InstID}

\* what naclFilesStore.get answers for a filename it does not hold
NoFile == "<undefined>"

\* the file texts: empty, whitespace only, a comment only, `type t {}`, `t i { f = 1 }`,
\* `t i { f = 2 }`, the type and the instance together, a text that fails to parse
Buffers == {"", " ", "#", "type", "inst1", "inst2", "type+inst2", "bad"}

\* buffer.trim(): whitespace at both ends is dropped
Trim(buffer) == IF buffer = " " THEN "" ELSE buffer

\* variant: the buffer is not trimmed
IsEmptyUntrimmed(buffer) == buffer = ""

\* _.isEmpty(naclFile.buffer.trim())
IsBlank(buffer) == Trim(buffer) = ""

TypeElem == [elemID |-> TypeID, type |-> "", val |-> 0]

InstElem(v) == [elemID |-> InstID, type |-> TypeID, val |-> v]

\* the external parser: parse(buffer, filename, functions) -> {elements, errors}
Parse(buffer) ==
  CASE buffer = "type" -> [elements |-> <<TypeElem>>, errors |-> <<>>]
    [] buffer = "inst1" -> [elements |-> <<InstElem(1)>>, errors |-> <<>>]
    [] buffer = "inst2" -> [elements |-> <<InstElem(2)>>, errors |-> <<>>]
    [] buffer = "type+inst2" -> [elements |-> <<TypeElem, InstElem(2)>>, errors |-> <<>>]
    [] buffer = "bad" -> [elements |-> <<>>, errors |-> <<"unexpected token">>]
    [] OTHER -> [elements |-> <<>>, errors |-> <<>>]

(***************************************************************************)
(* Sequences as ordered collections.                                       *)
(***************************************************************************)
Range(s) == {s[i] : i \in DOMAIN s}

\* the sequence without its repeated members, in order of first occurrence
\* (the iteration order of a JavaScript Set, _.uniq)
RECURSIVE Uniq(_)
Uniq(s) ==
  IF s = <<>> THEN <<>>
  ELSE LET init == Uniq(SubSeq(s, 1, Len(s) - 1))
           last == s[Len(s)]
       IN  IF last \in Range(init) THEN init ELSE Append(init, last)

\* flatMap: the concatenation of the sequences of a sequence
RECURSIVE Flatten(_)
Flatten(ss) == IF ss = <<>> THEN <<>> ELSE Head(ss) \o Flatten(Tail(ss))

(***************************************************************************)
(* Reference extraction.                                                   *)
(***************************************************************************)
\* variant: the type of an instance is not a reference
GetElementReferencedOfNoType(element) == <<>>

\* getElementReferenced: an instance references the identity of its type
GetElementReferenced(element) ==
  IF element.type # "" THEN <<element.type>> ELSE <<>>

\* getElementsReferences: the references of all elements, without repetition
GetElementsReferences(elements) ==
  Uniq(Flatten([i \in DOMAIN elements |-> GetElementReferenced(elements[i])]))

\* toParsedNaclFile
ToParsedNaclFile(filename, parseResult) ==
  [filename |-> filename,
   elements |-> parseResult.elements,
   errors |-> parseResult.errors,
   referenced |-> GetElementsReferences(parseResult.elements)]

\* parseNaclFiles over a batch of NaclFile records [filename, buffer]
ParseNaclFiles(naclFiles) ==
  [i \in DOMAIN naclFiles |->
     ToParsedNaclFile(naclFiles[i].filename, Parse(naclFiles[i].buffer))]

(***************************************************************************)
(* The merge engine (../../merger and ./elements_cache), consumed through  *)
(* its interface: fragments of one identity are combined into one element; *)
(* a field given different values by two fragments is a conflict, resolved *)
(* by a stable order of the fragments and reported as one merge error.     *)
(***************************************************************************)
ElemIDsOf(elements) == {elements[i].elemID : i \in DOMAIN elements}

ValsOf(elements, id) ==
  {elements[i].val : i \in {j \in DOMAIN elements : elements[j].elemID = id}} \ {0}

TypeOf(elements, id) ==
  (CHOOSE e \in Range(elements) : e.elemID = id).type

Least(S) == CHOOSE x \in S : \A y \in S : x <= y

MergeError(id) == [elemID |-> id, message |-> "duplicate key"]

\* mergeElements(elements) -> {merged, errors}
MergeElements(elements) ==
  [merged |-> {[elemID |-> id,
                type |-> TypeOf(elements, id),
                val |-> IF ValsOf(elements, id) = {} THEN 0
                        ELSE Least(ValsOf(elements, id))] : id \in ElemIDsOf(elements)},
   errors |-> {MergeError(id) : id \in {x \in ElemIDsOf(elements) :
                                          Cardinality(ValsOf(elements, x)) > 1}}]

\* _.keyBy(merged, e => e.elemID.getFullName())
KeyByFullName(merged) ==
  [id \in {e.elemID : e \in merged} |-> CHOOSE e \in merged : e.elemID = id]

\* the semantic changes of the relevant identities between two merged maps
ChangesOf(before, after, relevantElementIDs) ==
  {[action |-> "add", id |-> id] :
      id \in (relevantElementIDs \cap DOMAIN after) \ DOMAIN before}
  \cup {[action |-> "remove", id |-> id] :
      id \in (relevantElementIDs \cap DOMAIN before) \ DOMAIN after}
  \cup {[action |-> "modify", id |-> id] :
      id \in {x \in relevantElementIDs \cap DOMAIN before \cap DOMAIN after :
                before[x] # after[x]}}

\* buildNewMergedElementsAndErrors: the entries and the errors of the relevant
\* identities are replaced by the merge of the new elements, the rest is carried over
BuildNewMergedElementsAndErrors(newElements, relevantElementIDs, currentElements, currentMergeErrors) ==
  LET newMerged == KeyByFullName(MergeElements(newElements).merged)
      kept == DOMAIN currentElements \ relevantElementIDs
      mergedElements == [id \in kept \cup DOMAIN newMerged |->
                           IF id \in DOMAIN newMerged THEN newMerged[id]
                           ELSE currentElements[id]]
  IN  [mergedElements |-> mergedElements,
       mergeErrors |-> {e \in currentMergeErrors : e.elemID \notin relevantElementIDs}
                         \cup MergeElements(newElements).errors,
       changes |-> ChangesOf(currentElements, mergedElements, relevantElementIDs)]

(***************************************************************************)
(* buildNaclFilesState: the next snapshot from a batch of parsed files.    *)
(***************************************************************************)
Undefined == [undefined |-> TRUE]

\* _.keyBy(files, parsed => parsed.filename) as the ordered entries of the
\* resulting object: a key keeps the place of its first insertion and the
\* value of its last
RECURSIVE KeyBy(_)
KeyBy(files) ==
  IF files = <<>> THEN <<>>
  ELSE LET init == KeyBy(SubSeq(files, 1, Len(files) - 1))
           last == files[Len(files)]
       IN  IF \E i \in DOMAIN init : init[i].filename = last.filename
             THEN [i \in DOMAIN init |->
                     IF init[i].filename = last.filename THEN last ELSE init[i]]
             ELSE Append(init, last)

\* variant: the new files only
SpreadOfNewOnly(current, newParsed) == KeyBy(newParsed)

\* { ...current, ...newParsed }
Spread(current, newParsed) == KeyBy(current \o newParsed)

\* variant: a file without elements counts as empty, whatever its errors
IsEmptyParsedIgnoringErrors(parsed) == parsed.elements = <<>>

\* parsed => (_.isEmpty(parsed.elements) && _.isEmpty(parsed.errors))
IsEmptyParsed(parsed) == parsed.elements = <<>> /\ parsed.errors = <<>>

NotEmptyParsed(parsed) == ~IsEmptyParsed(parsed)

\* variant: without the omitBy
AllParsedWithEmpty(current, newNaclFiles) == Spread(current, KeyBy(newNaclFiles))

\* _.omitBy({ ...current, ...newParsed }, empty)
AllParsed(current, newNaclFiles) ==
  SelectSeq(Spread(current, KeyBy(newNaclFiles)), NotEmptyParsed)

\* the filenames, in the order of the file map
FileNames(parsedFiles) == [i \in DOMAIN parsedFiles |-> parsedFiles[i].filename]

\* variant: a key for every identity, with or without files
ElementsIndexOfEveryID(allParsed) ==
  [id \in ElemIDs |->
     FileNames(SelectSeq(allParsed, LAMBDA f : id \in ElemIDsOf(f.elements)))]

\* elementsIndex: identity -> the files that hold an element of that identity
ElementsIndexOf(allParsed) ==
  [id \in UNION {ElemIDsOf(allParsed[i].elements) : i \in DOMAIN allParsed} |->
     FileNames(SelectSeq(allParsed, LAMBDA f : id \in ElemIDsOf(f.elements)))]

\* referencedIndex: identity -> the files whose referenced list holds it
ReferencedIndexOf(allParsed) ==
  [id \in UNION {Range(allParsed[i].referenced) : i \in DOMAIN allParsed} |->
     FileNames(SelectSeq(allParsed, LAMBDA f : id \in Range(f.referenced)))]

\* newNaclFiles.flatMap(naclFile => naclFile.elements)
ElementsOfFiles(parsedFiles) ==
  Flatten([i \in DOMAIN parsedFiles |-> parsedFiles[i].elements])

\* variant: what the files held before is not looked at
CurrentElementsOfNoFile(current, newNaclFiles) == <<>>

\* current?.[filename]?.elements ?? [] for the filenames of the new files
CurrentElementsOfNewFiles(current, newNaclFiles) ==
  Flatten([i \in DOMAIN newNaclFiles |->
             ElementsOfFiles(SelectSeq(current,
                LAMBDA f : f.filename = newNaclFiles[i].filename))])

\* variant: the identities of the new elements only
RelevantElementIDsOfNewElements(current, newNaclFiles) ==
  ElemIDsOf(ElementsOfFiles(newNaclFiles))

\* the identities of the new files' elements and of the elements those files held
RelevantElementIDs(current, newNaclFiles) ==
  ElemIDsOf(ElementsOfFiles(newNaclFiles) \o CurrentElementsOfNewFiles(current, newNaclFiles))

\* variant: no file is looked at again
RelevantFilesNone(elementsIndex, relevantElementIDs) == {}

\* the files that, by the new elementsIndex, hold a relevant identity
RelevantFiles(elementsIndex, relevantElementIDs) ==
  UNION {Range(elementsIndex[id]) : id \in relevantElementIDs \cap DOMAIN elementsIndex}

\* variant: the relevant elements of one relevant file only
NewElementsToMergeOfOneFile(allParsed, relevantFiles, relevantElementIDs) ==
  SelectSeq(ElementsOfFiles(SelectSeq(allParsed,
              LAMBDA f : relevantFiles # {} /\ f.filename = CHOOSE x \in relevantFiles : TRUE)),
            LAMBDA e : e.elemID \in relevantElementIDs)

\* the elements of the relevant files that have a relevant identity
NewElementsToMerge(allParsed, relevantFiles, relevantElementIDs) ==
  SelectSeq(ElementsOfFiles(SelectSeq(allParsed, LAMBDA f : f.filename \in relevantFiles)),
            LAMBDA e : e.elemID \in relevantElementIDs)

\* the cold path: no current state, every element of the batch is merged
ColdState(newNaclFiles) ==
  LET allParsed == AllParsed(<<>>, newNaclFiles)
      mergeResult == MergeElements(ElementsOfFiles(newNaclFiles))
  IN  [state |-> [parsedNaclFiles |-> allParsed,
                  mergedElements |-> KeyByFullName(mergeResult.merged),
                  mergeErrors |-> mergeResult.errors,
                  elementsIndex |-> ElementsIndexOf(allParsed),
                  referencedIndex |-> ReferencedIndexOf(allParsed)],
       changes |-> {}]

\* variant: the merge engine is given no current elements
WarmStateOverNoElements(newNaclFiles, currentState) ==
  LET current == currentState.parsedNaclFiles
      allParsed == AllParsed(current, newNaclFiles)
      elementsIndex == ElementsIndexOf(allParsed)
      relevantElementIDs == RelevantElementIDs(current, newNaclFiles)
      relevantFiles == RelevantFiles(elementsIndex, relevantElementIDs)
      mergedResult == BuildNewMergedElementsAndErrors(
                        NewElementsToMerge(allParsed, relevantFiles, relevantElementIDs),
                        relevantElementIDs,
                        KeyByFullName({}),
                        currentState.mergeErrors)
  IN  [state |-> [parsedNaclFiles |-> allParsed,
                  mergedElements |-> mergedResult.mergedElements,
                  mergeErrors |-> mergedResult.mergeErrors,
                  elementsIndex |-> elementsIndex,
                  referencedIndex |-> ReferencedIndexOf(allParsed)],
       changes |-> mergedResult.changes]

\* the warm path: only the relevant identities are merged again
WarmState(newNaclFiles, currentState) ==
  LET current == currentState.parsedNaclFiles
      allParsed == AllParsed(current, newNaclFiles)
      elementsIndex == ElementsIndexOf(allParsed)
      relevantElementIDs == RelevantElementIDs(current, newNaclFiles)
      relevantFiles == RelevantFiles(elementsIndex, relevantElementIDs)
      mergedResult == BuildNewMergedElementsAndErrors(
                        NewElementsToMerge(allParsed, relevantFiles, relevantElementIDs),
                        relevantElementIDs,
                        currentState.mergedElements,
                        currentState.mergeErrors)
  IN  [state |-> [parsedNaclFiles |-> allParsed,
                  mergedElements |-> mergedResult.mergedElements,
                  mergeErrors |-> mergedResult.mergeErrors,
                  elementsIndex |-> elementsIndex,
                  referencedIndex |-> ReferencedIndexOf(allParsed)],
       changes |-> mergedResult.changes]

BuildNaclFilesState(newNaclFiles, currentState) ==
  IF currentState = Undefined THEN ColdState(newNaclFiles)
  ELSE WarmState(newNaclFiles, currentState)

(***************************************************************************)
(* The state of one source built by buildNaclFilesSource.                  *)
(***************************************************************************)
VARIABLES
  store,    \* naclFilesStore: filename -> buffer, NoFile when absent
  statics,  \* staticFileSource holds files (FALSE once cleared)
  cache,    \* the parse result cache holds entries (FALSE once cleared)
  state,    \* the closure variable `state`: Undefined or a promise of a snapshot
  loads,    \* the cold start begun by each call's getState, while it is pending
  calls,    \* the calls made on the source, each at one of its awaits
  parsing,  \* one run of parseNaclFiles: the cache entries, the clock, the files' tasks
  pool,     \* one fan-out of a call: its site and how many of its calls wait, run, are over
  editing,  \* the edit stage of one updateNaclFiles: its changes and their groups
  walking,  \* one run of getElementReferenced: the element and what it returned
  cloning,  \* a source and its clone: the closure variable `state` of each
  converting \* one traversal by the root hclConverter: its chain of nested converters

vars == <<store, statics, cache, state, loads, calls, parsing, pool, editing, walking, cloning, converting>>

\* a promise is resolved, [resolved |-> snapshot], rejected, [rejected |-> TRUE],
\* or the pending promise of the cold start begun by call p, [load |-> p]
IsResolved(promise) == "resolved" \in DOMAIN promise

IsRejected(promise) == "rejected" \in DOMAIN promise

Rejected == [rejected |-> TRUE]

NoLoad == [pc |-> "none", names |-> <<>>]

\* no run of getElementReferenced is followed
NoWalking == [pc |-> "none", element |-> <<>>, referenced |-> <<>>]

\* no clone is followed
NoCloning == [pc |-> "none"]

\* no traversal is followed
NoConverting == [pc |-> "none"]

\* no edit stage is followed
NoEditing == [stage |-> "none", changes |-> <<>>, data |-> <<>>, groups |-> <<>>]

\* no fan-out is followed
NoPool == [site |-> "none", waiting |-> 0, inFlight |-> 0, over |-> 0]

\* no run of parseNaclFiles is followed
NoParsing == [entries |-> {}, now |-> 0, tasks |-> <<>>]

\* variant: every getState begins a cold start of its own
GetStateOfNewLoad(p) == [load |-> p]

\* getState called by call p: the promise it returns ...
GetState(p) == IF state = Undefined THEN [load |-> p] ELSE state

\* ... and the cold start it begins when there is no state yet
GetStateLoads(p) ==
  IF state = Undefined THEN [loads EXCEPT ![p] = [pc |-> "list", names |-> <<>>]]
  ELSE loads

\* a call: the operation, the await it is at, its arguments, the promise it awaits,
\* whether its getState began a cold start (for a mutating call: whether
\* buildNaclFilesStateInner took its cold branch), what it returned.
\* `init` records whether a snapshot was published when the call was made, and
\* `prev` what the call made just before this one was when this one began.
NoCall ==
  [op |-> "none", pc |-> "idle", files |-> <<>>, args |-> Undefined,
   awaiting |-> Undefined, cold |-> FALSE, result |-> Undefined,
   init |-> FALSE, prev |-> Undefined]

\* a file of a batch; a file that updateNaclFiles fails to edit or parse is not ok
File(f, b) == [filename |-> f, buffer |-> b, ok |-> TRUE]

FailedFile(f) == [filename |-> f, buffer |-> "", ok |-> FALSE]

\* the batches of one file and of two files (of different names) over the entries
Singles(entries) == {<<x>> : x \in entries}

Pairs(entries) ==
  {<<x, y>> : x \in {e \in entries : e.filename = "f1"},
              y \in {e \in entries : e.filename = "f2"}}

FilesOver(buffers) == {File(f, b) : f \in Files, b \in buffers}

FailedFiles == {FailedFile(f) : f \in Files}

ClearArgs == [nacl : BOOLEAN, staticResources : BOOLEAN, cache : BOOLEAN]

\* clear() without arguments
DefaultClearArgs == [nacl |-> TRUE, staticResources |-> TRUE, cache |-> TRUE]

IsOk(file) == file.ok

\* variant: the files that failed are kept, with an empty text
SurvivorsAndFailed(files) == files

\* updatedNaclFiles: the files that survived, .filter(values.isDefined)
Survivors(files) == SelectSeq(files, IsOk)

NamesOf(files) == {files[i].filename : i \in DOMAIN files}

InitStores == [Files -> {NoFile, "inst1"}]

\* the source as buildNaclFilesSource leaves it, about to take n calls
InitWith(n) ==
  /\ store \in InitStores
  /\ statics = TRUE
  /\ cache = TRUE
  /\ state = Undefined
  /\ loads = [p \in 1 .. n |-> NoLoad]
  /\ calls = [p \in 1 .. n |-> NoCall]

CallIDs == DOMAIN calls

(***************************************************************************)
(* The store writes of setNaclFiles (the inner one) and removeNaclFiles.   *)
(***************************************************************************)
\* the buffer that the store holds for f once every set of the batch is done: the
\* sets are issued in the order of the batch, so the last one for f stays
BufferIn(files, f) ==
  LET I == {i \in DOMAIN files : files[i].filename = f /\ ~IsBlank(files[i].buffer)}
  IN  files[CHOOSE i \in I : \A j \in I : j <= i].buffer

\* nonEmptyNaclFiles.map(naclFile => naclFilesStore.set(naclFile))
StoreAfterSet(st, files) ==
  [f \in Files |->
     IF \E x \in Range(files) : x.filename = f /\ ~IsBlank(x.buffer)
       THEN BufferIn(files, f) ELSE st[f]]

\* variant: the store is not asked to delete
StoreAfterDeleteOfNothing(st, files) == st

\* emptyNaclFiles.map(naclFile => naclFilesStore.delete(naclFile.filename))
StoreAfterDelete(st, files) ==
  [f \in Files |->
     IF \E x \in Range(files) : x.filename = f /\ IsBlank(x.buffer)
       THEN NoFile ELSE st[f]]

\* the entries of a batch at the positions I, in the order of the batch
Pick(files, I) ==
  LET RECURSIVE upTo(_)
      upTo(n) == IF n = 0 THEN <<>>
                 ELSE IF n \in I THEN Append(upTo(n - 1), files[n]) ELSE upTo(n - 1)
  IN  upTo(Len(files))

(***************************************************************************)
(* The calls. A call is started by one of the Call actions, which run the  *)
(* code up to its first await; every other action resumes a call after the *)
(* await it is waiting at and runs it up to the next one. An await that    *)
(* waits for nothing (Promise.all of no store call) is passed at once.     *)
(***************************************************************************)
\* variant: only an operation that returned normally counts as over
IsFinishedWhenDone(c) == c.pc = "done"

\* an operation is over when it has returned or thrown
IsFinished(c) == c.pc \in {"done", "failed"}

IsMutating(c) == c.op \in {"set", "remove", "update"}

\* a call that has returned leaves nothing behind but how it ended: its arguments
\* and its result are in the state in which it returns, and in no later one
Retired(c) == IF IsFinished(c) THEN [NoCall EXCEPT !.pc = c.pc] ELSE c

\* the call p becomes c
Becomes(p, c) == calls' = [q \in CallIDs |-> IF q = p THEN c ELSE Retired(calls[q])]

\* no call moves
NoCallMoves == calls' = [q \in CallIDs |-> Retired(calls[q])]

\* what call p records of the call made before it, when that one has just
\* returned: its operation, the files it wrote, the path it took, whether a
\* snapshot was published when it was made, whether call p repeats it
PrevOf(p, call) ==
  IF p > 1 /\ calls[p - 1].pc = "done" /\ calls[p - 1].result # Undefined
    THEN [op |-> calls[p - 1].op,
          files |-> Survivors(calls[p - 1].files),
          cold |-> calls[p - 1].cold,
          init |-> calls[p - 1].init,
          same |-> calls[p - 1].op = call.op /\ calls[p - 1].files = call.files]
    ELSE Undefined

\* the call p begins; the history (init, prev) is kept of the calls that the
\* wrapper runs
Begin(p, call) ==
  Becomes(p, IF calls[p].pc = "queued"
               THEN [call EXCEPT !.init = IsResolved(state), !.prev = PrevOf(p, call)]
               ELSE call)

HasNonBlank(files) == \E i \in DOMAIN files : ~IsBlank(files[i].buffer)

HasBlank(files) == \E i \in DOMAIN files : IsBlank(files[i].buffer)

\* where setNaclFiles (the inner one) first waits: for its store.set calls, for
\* its store.delete calls, or, with neither, for nothing
AfterWrite(files, after) == IF HasBlank(files) THEN "delete" ELSE after

FirstWrite(files, after) ==
  IF HasNonBlank(files) THEN "write" ELSE AfterWrite(files, after)

\* setNaclFiles(...naclFiles): the store calls are issued, then awaited
CallSetNaclFiles(p, files) ==
  /\ Begin(p, [NoCall EXCEPT !.op = "set", !.pc = FirstWrite(files, "parse"),
                             !.files = files])
  /\ UNCHANGED <<store, statics, cache, state, loads, parsing, pool, editing, walking, cloning, converting>>

\* removeNaclFiles(...names): the store.delete calls are issued, then awaited
CallRemoveNaclFiles(p, files) ==
  /\ Begin(p, [NoCall EXCEPT !.op = "remove", !.pc = AfterWrite(files, "parse"),
                             !.files = files])
  /\ UNCHANGED <<store, statics, cache, state, loads, parsing, pool, editing, walking, cloning, converting>>

\* updateNaclFiles(changes): getElementNaclFiles calls getState at once
CallUpdateNaclFiles(p, files) ==
  /\ Begin(p, [NoCall EXCEPT !.op = "update", !.pc = "edit", !.files = files,
                             !.awaiting = GetState(p)])
  /\ state' = GetState(p)
  /\ loads' = GetStateLoads(p)
  /\ UNCHANGED <<store, statics, cache, parsing, pool, editing, walking, cloning, converting>>

\* list, get, getAll, getErrors, listNaclFiles, getElementReferencedFiles:
\* each is `(await getState())` followed by a look at the snapshot it got
CallRead(p) ==
  /\ Begin(p, [NoCall EXCEPT !.op = "read", !.pc = "read", !.awaiting = GetState(p),
                             !.cold = (state = Undefined)])
  /\ state' = GetState(p)
  /\ loads' = GetStateLoads(p)
  /\ UNCHANGED <<store, statics, cache, parsing, pool, editing, walking, cloning, converting>>

\* what clear returns
Cleared == [cleared |-> TRUE]

\* variant: the nacl files are cleared before the static files
ClearStagesNaclFirst(args) ==
  (IF args.nacl THEN <<"clearNacl">> ELSE <<>>)
  \o (IF args.staticResources THEN <<"clearStatic">> ELSE <<>>)
  \o (IF args.cache THEN <<"clearCache">> ELSE <<>>)

\* the stages of clear that its arguments ask for, in the order of the code
ClearStages(args) ==
  (IF args.staticResources THEN <<"clearStatic">> ELSE <<>>)
  \o (IF args.nacl THEN <<"clearNacl">> ELSE <<>>)
  \o (IF args.cache THEN <<"clearCache">> ELSE <<>>)

\* variant: clear never refuses its arguments
ClearThrowsNever(args) == FALSE

\* args.staticResources && !(args.cache && args.nacl)
ClearThrows(args) == args.staticResources /\ ~(args.cache /\ args.nacl)

\* clear(args): throws, or issues its first clear call; with nothing to clear
\* it resets the state without waiting for anything
CallClear(p, args) ==
  /\ IF ClearThrows(args)
       THEN /\ Begin(p, [NoCall EXCEPT !.op = "clear", !.pc = "failed", !.args = args])
            /\ UNCHANGED state
       ELSE IF ClearStages(args) = <<>>
         THEN /\ Begin(p, [NoCall EXCEPT !.op = "clear", !.pc = "done", !.args = args,
                                         !.result = Cleared])
              /\ state' = Undefined
         ELSE /\ Begin(p, [NoCall EXCEPT !.op = "clear", !.pc = Head(ClearStages(args)),
                                         !.args = args])
              /\ UNCHANGED state
  /\ UNCHANGED <<store, statics, cache, loads, parsing, pool, editing, walking, cloning, converting>>

\* the stage after `stage`, or "done" after the last one
NextClearStage(args, stage) ==
  LET stages == ClearStages(args)
      i == CHOOSE j \in DOMAIN stages : stages[j] = stage
  IN  IF i = Len(stages) THEN "done" ELSE stages[i + 1]

\* variant: `state` is not reset
ClearStepKeepingState(p) ==
  LET c == calls[p]
      next == NextClearStage(c.args, c.pc)
  IN  /\ c.pc \in {"clearStatic", "clearNacl", "clearCache"}
      /\ statics' = IF c.pc = "clearStatic" THEN FALSE ELSE statics
      /\ store' = IF c.pc = "clearNacl" THEN [f \in Files |-> NoFile] ELSE store
      /\ cache' = IF c.pc = "clearCache" THEN FALSE ELSE cache
      /\ state' = state
      /\ Becomes(p, [c EXCEPT !.pc = next,
                              !.result = IF next = "done" THEN Cleared ELSE c.result])
      /\ UNCHANGED <<loads, parsing, pool, editing, walking, cloning, converting>>

\* one of the clear calls returns; after the last one `state = undefined`
ClearStep(p) ==
  LET c == calls[p]
      next == NextClearStage(c.args, c.pc)
  IN  /\ c.pc \in {"clearStatic", "clearNacl", "clearCache"}
      /\ statics' = IF c.pc = "clearStatic" THEN FALSE ELSE statics
      /\ store' = IF c.pc = "clearNacl" THEN [f \in Files |-> NoFile] ELSE store
      /\ cache' = IF c.pc = "clearCache" THEN FALSE ELSE cache
      /\ state' = IF next = "done" THEN Undefined ELSE state
      /\ Becomes(p, [c EXCEPT !.pc = next,
                              !.result = IF next = "done" THEN Cleared ELSE c.result])
      /\ UNCHANGED <<loads, parsing, pool, editing, walking, cloning, converting>>

\* buildNaclFilesStateInner up to its await: with no state it awaits getState()
\* (the cold start, the batch is not used), otherwise it awaits the current state
EnterInner(p) ==
  /\ Becomes(p, [calls[p] EXCEPT !.pc = "build",
                                 !.cold = (state = Undefined),
                                 !.awaiting = GetState(p)])
  /\ state' = GetState(p)
  /\ loads' = GetStateLoads(p)

\* after its store writes removeNaclFiles and the outer setNaclFiles go on to
\* parse; updateNaclFiles has parsed already and enters buildNaclFilesStateInner
AfterStore(p) ==
  IF calls[p].op = "update" THEN EnterInner(p)
  ELSE /\ Becomes(p, [calls[p] EXCEPT !.pc = "parse"])
       /\ UNCHANGED <<state, loads>>

\* the store.set calls of setNaclFiles (the inner one) return
SetWrite(p) ==
  LET c == calls[p]
  IN  /\ c.pc = "write"
      /\ store' = StoreAfterSet(store, Survivors(c.files))
      /\ IF HasBlank(Survivors(c.files))
           THEN /\ Becomes(p, [c EXCEPT !.pc = "delete"])
                /\ UNCHANGED <<state, loads>>
           ELSE AfterStore(p)
      /\ UNCHANGED <<statics, cache, parsing, pool, editing, walking, cloning, converting>>

\* the store.delete calls return
SetDelete(p) ==
  LET c == calls[p]
  IN  /\ c.pc = "delete"
      /\ store' = StoreAfterDelete(store, Survivors(c.files))
      /\ AfterStore(p)
      /\ UNCHANGED <<statics, cache, parsing, pool, editing, walking, cloning, converting>>

\* parseNaclFiles returns (its results are in the cache by now), and
\* buildNaclFilesStateInner runs up to its await
ParseReturns(p) ==
  LET c == calls[p]
  IN  /\ c.pc = "parse"
      /\ cache' = (cache \/ c.files # <<>>)
      /\ EnterInner(p)
      /\ UNCHANGED <<store, statics, parsing, pool, editing, walking, cloning, converting>>

\* variant: with no state the parsed batch alone makes the snapshot
InnerResultOfBatch(p) ==
  LET c == calls[p]
  IN  IF c.cold
      THEN [changes |-> {},
            state |-> BuildNaclFilesState(ParseNaclFiles(Survivors(c.files)), Undefined).state]
      ELSE BuildNaclFilesState(ParseNaclFiles(Survivors(c.files)), c.awaiting.resolved)

\* what buildNaclFilesStateInner returns to call p
InnerResult(p) ==
  LET c == calls[p]
  IN  IF c.cold THEN [changes |-> {}, state |-> c.awaiting.resolved]
      ELSE BuildNaclFilesState(ParseNaclFiles(Survivors(c.files)), c.awaiting.resolved)

\* buildNaclFilesStateInner returns and the caller assigns
\* `state = Promise.resolve(res.state)` and returns res.changes
Publish(p) ==
  LET c == calls[p]
  IN  /\ c.pc = "build"
      /\ IsResolved(c.awaiting)
      /\ state' = [resolved |-> InnerResult(p).state]
      /\ Becomes(p, [c EXCEPT !.pc = "done",
                              !.result = [changes |-> InnerResult(p).changes]])
      /\ UNCHANGED <<store, statics, cache, loads, parsing, pool, editing, walking, cloning, converting>>

\* variant: with no surviving file the empty batch is ingested all the same
UpdateEditIngestingAlways(p) ==
  LET c == calls[p]
  IN  /\ c.pc = "edit"
      /\ IsResolved(c.awaiting)
      /\ cache' = (cache \/ Survivors(c.files) # <<>>)
      /\ IF Survivors(c.files) = <<>>
           THEN EnterInner(p)
           ELSE /\ Becomes(p, [c EXCEPT !.pc = FirstWrite(Survivors(c.files), "none")])
                /\ UNCHANGED <<state, loads>>
      /\ UNCHANGED <<store, statics, parsing, pool, editing, walking, cloning, converting>>

\* updateNaclFiles has the state and has computed and parsed the new texts:
\* with no surviving file it returns [], otherwise it writes the files
UpdateEdit(p) ==
  LET c == calls[p]
  IN  /\ c.pc = "edit"
      /\ IsResolved(c.awaiting)
      /\ cache' = (cache \/ Survivors(c.files) # <<>>)
      /\ IF Survivors(c.files) = <<>>
           THEN Becomes(p, [c EXCEPT !.pc = "done", !.result = [changes |-> {}]])
           ELSE Becomes(p, [c EXCEPT !.pc = FirstWrite(Survivors(c.files), "none")])
      /\ UNCHANGED <<store, statics, state, loads, parsing, pool, editing, walking, cloning, converting>>

\* variant: the files and the indices are read again from `state`
ReadViewAcrossPublish(p) ==
  LET snapshot == calls[p].awaiting.resolved
      latest == IF IsResolved(state) THEN state.resolved ELSE snapshot
  IN  [parsedNaclFiles |-> latest.parsedNaclFiles,
       mergedElements |-> snapshot.mergedElements,
       mergeErrors |-> snapshot.mergeErrors,
       elementsIndex |-> latest.elementsIndex,
       referencedIndex |-> latest.referencedIndex]

\* what a read sees: every field comes from the one snapshot it awaited
ReadView(p) ==
  LET snapshot == calls[p].awaiting.resolved
  IN  [parsedNaclFiles |-> snapshot.parsedNaclFiles,
       mergedElements |-> snapshot.mergedElements,
       mergeErrors |-> snapshot.mergeErrors,
       elementsIndex |-> snapshot.elementsIndex,
       referencedIndex |-> snapshot.referencedIndex]

\* list: Object.keys(elementsIndex), as identities
List(snapshot) == DOMAIN snapshot.elementsIndex

\* getElementReferencedFiles: referencedIndex[elemID.getFullName()] || []
GetElementReferencedFiles(snapshot, id) ==
  IF id \in DOMAIN snapshot.referencedIndex THEN snapshot.referencedIndex[id] ELSE <<>>

\* getErrors: the parse errors of every file and the merge errors of the snapshot
GetErrors(snapshot) ==
  [parse |-> Flatten([i \in DOMAIN snapshot.parsedNaclFiles |->
                        snapshot.parsedNaclFiles[i].errors]),
   merge |-> snapshot.mergeErrors,
   validation |-> <<>>]

\* a read gets the snapshot and answers from it
ReadReturns(p) ==
  LET c == calls[p]
  IN  /\ c.pc = "read"
      /\ IsResolved(c.awaiting)
      /\ Becomes(p, [c EXCEPT !.pc = "done", !.result = [seen |-> ReadView(p)]])
      /\ UNCHANGED <<store, statics, cache, state, loads, parsing, pool, editing, walking, cloning, converting>>

\* variant: the failure also resets `state`
FailsAndDropsState(p, I) ==
  LET c == calls[p]
  IN  /\ c.pc \in {"write", "delete", "parse", "edit", "clearStatic", "clearNacl", "clearCache"}
      /\ I \subseteq (IF c.pc \in {"write", "delete"} THEN DOMAIN Survivors(c.files) ELSE {})
      /\ store' = CASE c.pc = "write" -> StoreAfterSet(store, Pick(Survivors(c.files), I))
                    [] c.pc = "delete" -> StoreAfterDelete(store, Pick(Survivors(c.files), I))
                    [] OTHER -> store
      /\ Becomes(p, [c EXCEPT !.pc = "failed", !.result = [failedAt |-> c.pc]])
      /\ state' = Undefined
      /\ UNCHANGED <<statics, cache, loads, parsing, pool, editing, walking, cloning, converting>>

\* an external call the call is waiting for rejects (the store, the cache, the
\* parser, the static files): the call fails there, with the rejection of the
\* call it was waiting for. Of the store writes that were in flight (the
\* entries I of the batch) some may have been done
Fails(p, I) ==
  LET c == calls[p]
  IN  /\ c.pc \in {"write", "delete", "parse", "edit", "clearStatic", "clearNacl", "clearCache"}
      /\ I \subseteq (IF c.pc \in {"write", "delete"} THEN DOMAIN Survivors(c.files) ELSE {})
      /\ store' = CASE c.pc = "write" -> StoreAfterSet(store, Pick(Survivors(c.files), I))
                    [] c.pc = "delete" -> StoreAfterDelete(store, Pick(Survivors(c.files), I))
                    [] OTHER -> store
      /\ Becomes(p, [c EXCEPT !.pc = "failed", !.result = [failedAt |-> c.pc]])
      /\ UNCHANGED <<statics, cache, state, loads, parsing, pool, editing, walking, cloning, converting>>

\* the promise a call awaits is rejected: the call fails with it
AwaitRejected(p) ==
  LET c == calls[p]
  IN  /\ c.pc \in {"build", "edit", "read"}
      /\ IsRejected(c.awaiting)
      /\ Becomes(p, [c EXCEPT !.pc = "failed"])
      /\ UNCHANGED <<store, statics, cache, state, loads, parsing, pool, editing, walking, cloning, converting>>

(***************************************************************************)
(* The cold start: getParsedNaclFiles, then buildNaclFilesState with no    *)
(* current state.                                                          *)
(***************************************************************************)
Names(st) == {f \in Files : st[f] # NoFile}

\* the orders in which naclFilesStore.list() may give the filenames
Listings(st) ==
  {q \in UNION {[1 .. n -> Names(st)] : n \in 0 .. Cardinality(Files)} :
     Len(q) = Cardinality(Names(st)) /\ Range(q) = Names(st)}

\* naclFilesStore.getFiles(names).filter(values.isDefined)
GetFiles(st, names) ==
  LET held == SelectSeq(names, LAMBDA f : st[f] # NoFile)
  IN  [i \in DOMAIN held |-> [filename |-> held[i], buffer |-> st[held[i]], ok |-> TRUE]]

\* the promise of the cold start k is settled: whoever holds it now holds its outcome
Settle(promise, k, outcome) == IF promise = [load |-> k] THEN outcome ELSE promise

Settled(k, outcome) ==
  /\ state' = Settle(state, k, outcome)
  /\ calls' = [q \in CallIDs |->
                 [Retired(calls[q]) EXCEPT !.awaiting = Settle(calls[q].awaiting, k, outcome)]]
  /\ loads' = [loads EXCEPT ![k] = NoLoad]

\* naclFilesStore.list() returns
LoadList(k, names) ==
  /\ loads[k].pc = "list"
  /\ names \in Listings(store)
  /\ loads' = [loads EXCEPT ![k].pc = "getFiles", ![k].names = names]
  /\ NoCallMoves
  /\ UNCHANGED <<store, statics, cache, state, parsing, pool, editing, walking, cloning, converting>>

\* the snapshot of a cold start that was given `names` and then reads the store st
ColdStart(st, names) ==
  BuildNaclFilesState(ParseNaclFiles(GetFiles(st, names)), Undefined).state

\* getFiles returns, the files are parsed and the snapshot is built
LoadResolves(k) ==
  /\ loads[k].pc = "getFiles"
  /\ Settled(k, [resolved |-> ColdStart(store, loads[k].names)])
  /\ cache' = (cache \/ GetFiles(store, loads[k].names) # <<>>)
  /\ UNCHANGED <<store, statics, parsing, pool, editing, walking, cloning, converting>>

\* the store, the cache or the parser rejects: so does the promise of the cold
\* start, which `state` may still hold
LoadFails(k) ==
  /\ loads[k].pc \in {"list", "getFiles"}
  /\ Settled(k, Rejected)
  /\ UNCHANGED <<store, statics, cache, parsing, pool, editing, walking, cloning, converting>>

\* a call or a cold start resumes after the await it was at
Resume ==
  \/ \E p \in CallIDs : SetWrite(p)
  \/ \E p \in CallIDs : SetDelete(p)
  \/ \E p \in CallIDs : ParseReturns(p)
  \/ \E p \in CallIDs : Publish(p)
  \/ \E p \in CallIDs : UpdateEdit(p)
  \/ \E p \in CallIDs : ReadReturns(p)
  \/ \E p \in CallIDs : ClearStep(p)
  \/ \E p \in CallIDs : \E I \in SUBSET (1 .. Cardinality(Files)) : Fails(p, I)
  \/ \E p \in CallIDs : AwaitRejected(p)
  \/ \E k \in CallIDs : \E names \in Listings(store) : LoadList(k, names)
  \/ \E k \in CallIDs : LoadResolves(k)
  \/ \E k \in CallIDs : LoadFails(k)

(***************************************************************************)
(* The source alone: calls are made at any time and overlap.               *)
(***************************************************************************)
\* the calls are numbered in the order in which they are made
IsNextCall(p) ==
  /\ calls[p].pc = "idle"
  /\ \A q \in CallIDs : q < p => calls[q].pc # "idle"

\* the arguments given to overlapping calls
OverlapBuffers == {"", "inst2"}

OverlapSetBatches == Singles(FilesOver(OverlapBuffers))

OverlapRemoveBatches == {<<File("f1", "")>>}

OverlapEditBatches == Singles(FilesOver({"inst2"}) \cup {FailedFile("f1")})

Init == InitWith(MaxOverlap) /\ parsing = NoParsing /\ pool = NoPool /\ editing = NoEditing /\ walking = NoWalking /\ cloning = NoCloning /\ converting = NoConverting

SetNaclFiles == \E p \in CallIDs, files \in OverlapSetBatches :
  IsNextCall(p) /\ CallSetNaclFiles(p, files)

RemoveNaclFiles == \E p \in CallIDs, files \in OverlapRemoveBatches :
  IsNextCall(p) /\ CallRemoveNaclFiles(p, files)

UpdateNaclFiles == \E p \in CallIDs, files \in OverlapEditBatches :
  IsNextCall(p) /\ CallUpdateNaclFiles(p, files)

Clear == \E p \in CallIDs : IsNextCall(p) /\ CallClear(p, DefaultClearArgs)

Read == \E p \in CallIDs : IsNextCall(p) /\ CallRead(p)

Next ==
  \/ SetNaclFiles
  \/ RemoveNaclFiles
  \/ UpdateNaclFiles
  \/ Clear
  \/ Read
  \/ Resume

Spec == Init /\ [][Next]_vars

(***************************************************************************)
(* The source behind the workspace operation wrapper                       *)
(* (runOperationWithWorkspace): operations are queued as they are          *)
(* submitted, and one runs at a time, in the order of submission.          *)
(***************************************************************************)
Submit(p) ==
  /\ IsNextCall(p)
  /\ Becomes(p, [calls[p] EXCEPT !.pc = "queued"])
  /\ UNCHANGED <<store, statics, cache, state, loads, parsing, pool, editing, walking, cloning, converting>>

\* variant: any queued operation may run
WrapperAdmitsAnyQueued(p) == calls[p].pc = "queued"

\* the wrapper lets the operation p run: every operation submitted before it is over
WrapperAdmits(p) ==
  /\ calls[p].pc = "queued"
  /\ \A q \in CallIDs : q < p => IsFinished(calls[q])

\* the arguments given to serialized calls
PairBuffers == {"", "inst1", "inst2"}

EditBuffers == {"", "inst1", "inst2", "type"}

SetBatches ==
  {<<>>} \cup Singles(FilesOver(Buffers)) \cup Pairs(FilesOver(PairBuffers))

RemoveBatches == Singles(FilesOver({""})) \cup Pairs(FilesOver({""}))

EditBatches ==
  Singles(FilesOver(EditBuffers) \cup FailedFiles)
  \cup Pairs(FilesOver(OverlapBuffers) \cup FailedFiles)

SerialInit == InitWith(MaxCalls) /\ parsing = NoParsing /\ pool = NoPool /\ editing = NoEditing /\ walking = NoWalking /\ cloning = NoCloning /\ converting = NoConverting

SerialSubmit == \E p \in CallIDs : Submit(p)

SerialSetNaclFiles == \E p \in CallIDs, files \in SetBatches :
  WrapperAdmits(p) /\ CallSetNaclFiles(p, files)

SerialRemoveNaclFiles == \E p \in CallIDs, files \in RemoveBatches :
  WrapperAdmits(p) /\ CallRemoveNaclFiles(p, files)

SerialUpdateNaclFiles == \E p \in CallIDs, files \in EditBatches :
  WrapperAdmits(p) /\ CallUpdateNaclFiles(p, files)

SerialClear == \E p \in CallIDs, args \in ClearArgs :
  WrapperAdmits(p) /\ CallClear(p, args)

SerialRead == \E p \in CallIDs : WrapperAdmits(p) /\ CallRead(p)

SerialNext ==
  \/ SerialSubmit
  \/ SerialSetNaclFiles
  \/ SerialRemoveNaclFiles
  \/ SerialUpdateNaclFiles
  \/ SerialClear
  \/ SerialRead
  \/ Resume

Serial == SerialInit /\ [][SerialNext]_vars
(***************************************************************************)
(* The source behind the wrapper when every external call returns: the     *)
(* store, the cache, the parser and the merge engine answer every call and *)
(* the event loop runs every continuation that is ready.                   *)
(***************************************************************************)
\* number of operations submitted when progress is followed
MaxQueued == 2

LiveInit == InitWith(MaxQueued) /\ parsing = NoParsing /\ pool = NoPool /\ editing = NoEditing /\ walking = NoWalking /\ cloning = NoCloning /\ converting = NoConverting

\* the arguments given to the calls whose progress is followed
LiveSetBatches ==
  {<<File("f1", "inst2")>>, <<File("f2", "")>>, <<File("f2", ""), File("f2", "type")>>}

LiveRemoveBatches == {<<File("f1", "")>>}

LiveEditBatches == {<<File("f1", "type")>>, <<FailedFile("f2")>>}

LiveClearArgs == {DefaultClearArgs, [DefaultClearArgs EXCEPT !.cache = FALSE]}

\* the wrapper starts the operation at the head of its queue
Admits ==
  \/ \E p \in CallIDs, files \in LiveSetBatches :
       WrapperAdmits(p) /\ CallSetNaclFiles(p, files)
  \/ \E p \in CallIDs, files \in LiveRemoveBatches :
       WrapperAdmits(p) /\ CallRemoveNaclFiles(p, files)
  \/ \E p \in CallIDs, files \in LiveEditBatches :
       WrapperAdmits(p) /\ CallUpdateNaclFiles(p, files)
  \/ \E p \in CallIDs, args \in LiveClearArgs :
       WrapperAdmits(p) /\ CallClear(p, args)
  \/ SerialRead

\* an external call returns and the call or the cold start that awaited it goes on
Returns ==
  \/ \E p \in CallIDs : SetWrite(p)
  \/ \E p \in CallIDs : SetDelete(p)
  \/ \E p \in CallIDs : ParseReturns(p)
  \/ \E p \in CallIDs : Publish(p)
  \/ \E p \in CallIDs : UpdateEdit(p)
  \/ \E p \in CallIDs : ReadReturns(p)
  \/ \E p \in CallIDs : ClearStep(p)
  \/ \E k \in CallIDs : \E names \in Listings(store) : LoadList(k, names)
  \/ \E k \in CallIDs : LoadResolves(k)

LiveNext ==
  \/ SerialSubmit
  \/ Admits
  \/ Returns

\* the next step of call p, or of the cold start it began, can be taken: the
\* external call it awaits returns (each one does, here), or the promise it awaits
\* is resolved. This is the guard of the disjunct of Returns that moves p
IsReady(p) ==
  \/ calls[p].pc \in {"write", "delete", "parse", "clearStatic", "clearNacl", "clearCache"}
  \/ calls[p].pc \in {"build", "edit", "read"} /\ IsResolved(calls[p].awaiting)
  \/ loads[p].pc \in {"list", "getFiles"}

\* the wrapper starts an operation it may start, and the event loop runs every
\* continuation that is ready: weak fairness of Admits, and weak fairness of each
\* call's step in Returns, written with the guard of the step (a call that is
\* ready stays ready until it takes the step)
Live ==
  /\ LiveInit /\ [][LiveNext]_vars
  /\ WF_vars(Admits)
  /\ \A p \in 1 .. MaxQueued : []<>~IsReady(p)


(***************************************************************************)
(* parseNaclFiles alone: one run over a batch of files against the parse   *)
(* result cache, each file's task at one of its awaits.                    *)
(***************************************************************************)
\* the latest value of Date.now() that is followed
MaxClock == 3

\* PARSE_CONCURRENCY
PARSE_CONCURRENCY == 20

\* a NaclFile without timestamp (timestamps are positive)
NoTimestamp == 0

ParsingBuffers == {"inst1", "bad"}

\* the files given to parseNaclFiles; a batch may name a file twice
NaclFiles ==
  {[filename |-> f, buffer |-> b, timestamp |-> t] :
     f \in Files, b \in ParsingBuffers, t \in {NoTimestamp, 1}}

ParsingBatches == Singles(NaclFiles) \cup {<<x, y>> : x, y \in NaclFiles}

\* cacheResultKey: lastModified is naclFile.timestamp ?? Date.now()
CacheResultKey(naclFile, now) ==
  [filename |-> naclFile.filename,
   lastModified |-> IF naclFile.timestamp = NoTimestamp THEN now ELSE naclFile.timestamp,
   buffer |-> naclFile.buffer]

\* cache.get(key): the result stored under the key, or undefined
CacheGet(entries, key) ==
  IF \E e \in entries : e.key = key
    THEN (CHOOSE e \in entries : e.key = key).result
    ELSE Undefined

\* variant: the result is not stored
CachePutNothing(entries, key, result) == entries

\* cache.put(key, parseResult)
CachePut(entries, key, result) ==
  {e \in entries : e.key # key} \cup {[key |-> key, result |-> result]}

\* what the cache may hold when parseNaclFiles is called: results of earlier
\* parses of files with a timestamp
EarlierEntries ==
  {[key |-> CacheResultKey(x, 0), result |-> Parse(x.buffer)] :
     x \in {y \in NaclFiles : y.timestamp # NoTimestamp}}

\* the task of one file: where it is, the key of its latest cache call, the
\* key it gave to cache.get, how often it has invoked the parser, and the
\* ParsedNaclFile it returned
NewTask(naclFile) ==
  [file |-> naclFile, pc |-> "start", key |-> Undefined, looked |-> Undefined,
   parsed |-> 0, out |-> Undefined]

IsInFlight(task) == task.pc \in {"get", "parse", "put"}

TaskBecomes(i, task) ==
  /\ parsing' = [parsing EXCEPT !.tasks[i] = task]
  /\ UNCHANGED <<store, statics, cache, state, loads, calls, pool, editing, walking, cloning, converting>>

ParsingInit ==
  /\ store = [f \in Files |-> NoFile]
  /\ statics = TRUE
  /\ cache = TRUE
  /\ state = Undefined
  /\ loads = <<>>
  /\ calls = <<>>
  /\ pool = NoPool
  /\ editing = NoEditing /\ walking = NoWalking /\ cloning = NoCloning /\ converting = NoConverting
  /\ \E entries \in SUBSET EarlierEntries, naclFiles \in ParsingBatches :
       parsing = [entries |-> entries, now |-> 2,
                  tasks |-> [i \in DOMAIN naclFiles |-> NewTask(naclFiles[i])]]

\* Date.now() moves on
ClockTicks ==
  /\ parsing.now < MaxClock
  /\ parsing' = [parsing EXCEPT !.now = @ + 1]
  /\ UNCHANGED <<store, statics, cache, state, loads, calls, pool, editing, walking, cloning, converting>>

\* withLimitedConcurrency starts the task of a file: it computes the key and
\* calls cache.get
TaskStarts == \E i \in DOMAIN parsing.tasks :
  LET t == parsing.tasks[i]
  IN  /\ t.pc = "start"
      /\ Cardinality({j \in DOMAIN parsing.tasks : IsInFlight(parsing.tasks[j])})
           < PARSE_CONCURRENCY
      /\ TaskBecomes(i, [t EXCEPT !.pc = "get",
                                  !.key = CacheResultKey(t.file, parsing.now),
                                  !.looked = CacheResultKey(t.file, parsing.now)])

\* cache.get returns: with a result the task returns toParsedNaclFile of it,
\* without one parseNaclFile calls the parser
CacheGetReturns == \E i \in DOMAIN parsing.tasks :
  LET t == parsing.tasks[i]
      cachedResult == CacheGet(parsing.entries, t.key)
  IN  /\ t.pc = "get"
      /\ IF cachedResult # Undefined
           THEN TaskBecomes(i, [t EXCEPT !.pc = "done",
                                         !.out = ToParsedNaclFile(t.file.filename, cachedResult)])
           ELSE TaskBecomes(i, [t EXCEPT !.pc = "parse", !.parsed = @ + 1])

\* the parser returns: parseNaclFile computes the key and calls cache.put
ParserReturns == \E i \in DOMAIN parsing.tasks :
  LET t == parsing.tasks[i]
  IN  /\ t.pc = "parse"
      /\ TaskBecomes(i, [t EXCEPT !.pc = "put",
                                  !.key = CacheResultKey(t.file, parsing.now)])

\* cache.put returns: the result is stored and the task returns
\* toParsedNaclFile of it
CachePutReturns == \E i \in DOMAIN parsing.tasks :
  LET t == parsing.tasks[i]
      parseResult == Parse(t.file.buffer)
  IN  /\ t.pc = "put"
      /\ parsing' = [parsing EXCEPT
           !.entries = CachePut(@, t.key, parseResult),
           !.tasks[i] = [t EXCEPT !.pc = "done",
                                  !.out = ToParsedNaclFile(t.file.filename, parseResult)]]
      /\ UNCHANGED <<store, statics, cache, state, loads, calls, pool, editing, walking, cloning, converting>>

\* cache.get, the parser or cache.put rejects: the task, and with it
\* parseNaclFiles, fails
TaskFails == \E i \in DOMAIN parsing.tasks :
  /\ IsInFlight(parsing.tasks[i])
  /\ TaskBecomes(i, [parsing.tasks[i] EXCEPT !.pc = "failed"])

ParsingNext ==
  \/ ClockTicks
  \/ TaskStarts
  \/ CacheGetReturns
  \/ ParserReturns
  \/ CachePutReturns
  \/ TaskFails

Parsing == ParsingInit /\ [][ParsingNext]_vars

(***************************************************************************)
(* The fan-out of one call: the calls it issues over the files of its      *)
(* batch, through withLimitedConcurrency or through Promise.all.           *)
(***************************************************************************)
\* the most files one call is given
MaxFanOut == 21

\* DUMP_CONCURRENCY
DUMP_CONCURRENCY == 20

\* CACHE_READ_CONCURRENCY
CACHE_READ_CONCURRENCY == 20

\* the places where a call fans out over its files
LimitedSites ==
  {"parseNaclFiles: parse", "updateNaclFiles: getSourceMap",
   "getSourceRanges: getSourceMap", "updateNaclFiles: edit"}

PromiseAllSites ==
  {"setNaclFiles: store.set", "setNaclFiles: store.delete", "removeNaclFiles: store.delete"}

\* variant: no site has a limit
NoLimitOf(site, n) == n

\* how many of the n calls of a site may run at a time: the limit given to
\* withLimitedConcurrency, and all of them under Promise.all
LimitOf(site, n) ==
  CASE site = "parseNaclFiles: parse" -> PARSE_CONCURRENCY
    [] site \in {"updateNaclFiles: getSourceMap", "getSourceRanges: getSourceMap"} ->
         CACHE_READ_CONCURRENCY
    [] site = "updateNaclFiles: edit" -> DUMP_CONCURRENCY
    [] OTHER -> n

\* the calls of the fan-out, whatever their stage
SizeOf(fanOut) == fanOut.waiting + fanOut.inFlight + fanOut.over

FanOutInit ==
  /\ store = [f \in Files |-> NoFile]
  /\ statics = TRUE
  /\ cache = TRUE
  /\ state = Undefined
  /\ loads = <<>>
  /\ calls = <<>>
  /\ parsing = NoParsing
  /\ editing = NoEditing /\ walking = NoWalking /\ cloning = NoCloning /\ converting = NoConverting
  /\ \E site \in LimitedSites \cup PromiseAllSites, n \in 0 .. MaxFanOut :
       pool = [site |-> site, waiting |-> n, inFlight |-> 0, over |-> 0]

\* withLimitedConcurrency starts the next of its thunks while fewer than the
\* limit run
ThunkStarts ==
  /\ pool.site \in LimitedSites
  /\ pool.waiting > 0
  /\ pool.inFlight < LimitOf(pool.site, SizeOf(pool))
  /\ pool' = [pool EXCEPT !.waiting = @ - 1, !.inFlight = @ + 1]
  /\ UNCHANGED <<store, statics, cache, state, loads, calls, parsing, editing, walking, cloning, converting>>

\* Promise.all(files.map(...)): the map issues the call of every file before
\* any of them is awaited
AllAreIssued ==
  /\ pool.site \in PromiseAllSites
  /\ pool.waiting > 0
  /\ pool' = [pool EXCEPT !.waiting = 0, !.inFlight = pool.waiting]
  /\ UNCHANGED <<store, statics, cache, state, loads, calls, parsing, editing, walking, cloning, converting>>

\* one of the running calls is over
OneReturns ==
  /\ pool.inFlight > 0
  /\ pool' = [pool EXCEPT !.inFlight = @ - 1, !.over = @ + 1]
  /\ UNCHANGED <<store, statics, cache, state, loads, calls, parsing, editing, walking, cloning, converting>>

FanOutNext ==
  \/ ThunkStarts
  \/ AllAreIssued
  \/ OneReturns

FanOut == FanOutInit /\ [][FanOutNext]_vars

(***************************************************************************)
(* The edit stage of updateNaclFiles: the located changes are grouped by   *)
(* file, and each group reads its file, applies its changes and parses.    *)
(***************************************************************************)
\* the most located changes one call is followed with
MaxChanges == 2

\* the filenames of the locations: two that differ in letter case only, and another
EditNames == {"A.nacl", "a.nacl", "b.nacl"}

\* filename.toLowerCase()
ToLowerCase(filename) == IF filename = "A.nacl" THEN "a.nacl" ELSE filename

\* the order of Array.prototype.sort() on strings, by UTF-16 code unit:
\* "A" (65) is before "a" (97), which is before "b" (98)
ComesBefore(a, b) ==
  \/ a = "A.nacl" /\ b \in {"a.nacl", "b.nacl"}
  \/ a = "a.nacl" /\ b = "b.nacl"

\* a value that is no element
FieldValue == [value |-> 4]

\* isElement(value)
IsElement(value) == "elemID" \in DOMAIN value

\* the located changes: the addition of a whole element or of a value, and
\* the modification of a whole element
LocatedChanges ==
  {[filename |-> f, action |-> k.action, after |-> k.after] :
     f \in EditNames,
     k \in {[action |-> "add", after |-> TypeElem],
            [action |-> "add", after |-> FieldValue],
            [action |-> "modify", after |-> TypeElem]}}

\* the texts the store may hold for a filename
StoredTexts == {NoFile, " ", "inst1"}

\* the buffers updateNaclFileData may return
NewBuffers == {"type", "bad"}

\* _.groupBy(changes, change => change.location.filename.toLowerCase()).entries():
\* one group per key, in the order in which the keys first occur
GroupByLowerCase(changes) ==
  LET keys == Uniq([i \in DOMAIN changes |-> ToLowerCase(changes[i].filename)])
  IN  [k \in DOMAIN keys |->
         SelectSeq(changes, LAMBDA c : ToLowerCase(c.filename) = keys[k])]

\* variant: the filename of the first change of the group
FirstGiven(fileChanges) == fileChanges[1].filename

\* const [filename] = fileChanges.map(change => change.location.filename).sort()
FirstVariant(fileChanges) ==
  CHOOSE f \in {fileChanges[i].filename : i \in DOMAIN fileChanges} :
    \A i \in DOMAIN fileChanges :
      fileChanges[i].filename = f \/ ComesBefore(f, fileChanges[i].filename)

\* variant: the number of changes is not looked at
ShouldNotParseAnyNumber(naclFileData, fileChanges) ==
  /\ naclFileData = ""
  /\ fileChanges[1].action = "add"
  /\ IsElement(fileChanges[1].after)

\* shouldNotParse
ShouldNotParse(naclFileData, fileChanges) ==
  /\ naclFileData = ""
  /\ Len(fileChanges) = 1
  /\ fileChanges[1].action = "add"
  /\ IsElement(fileChanges[1].after)

\* the thunk of one group: its changes, where it is, the filename it took,
\* the text it read, the buffer it computed, how often it has invoked the
\* parser, and what it returns
NewGroup(fileChanges) ==
  [changes |-> fileChanges, pc |-> "start", filename |-> NoFile, naclFileData |-> NoFile,
   buffer |-> NoFile, parsed |-> 0, out |-> Undefined]

GroupIsInFlight(group) == group.pc \in {"get", "edit", "create", "parse", "remove"}

GroupBecomes(k, group) ==
  /\ editing' = [editing EXCEPT !.groups[k] = group]
  /\ UNCHANGED <<store, statics, cache, state, loads, calls, parsing, pool, walking, cloning, converting>>

EditingInit ==
  /\ store = [f \in Files |-> NoFile]
  /\ statics = TRUE
  /\ cache = TRUE
  /\ state = Undefined
  /\ loads = <<>>
  /\ calls = <<>>
  /\ parsing = NoParsing
  /\ pool = NoPool
  /\ walking = NoWalking /\ cloning = NoCloning /\ converting = NoConverting
  /\ \E n \in 1 .. MaxChanges :
       \E changes \in [1 .. n -> LocatedChanges], data \in [EditNames -> StoredTexts] :
         editing = [stage |-> "located", changes |-> changes, data |-> data,
                    groups |-> <<>>]

\* the located changes are grouped and one thunk per group is made
ChangesAreGrouped ==
  /\ editing.stage = "located"
  /\ editing' = [editing EXCEPT
       !.stage = "grouped",
       !.groups = [k \in DOMAIN GroupByLowerCase(editing.changes) |->
                     NewGroup(GroupByLowerCase(editing.changes)[k])]]
  /\ UNCHANGED <<store, statics, cache, state, loads, calls, parsing, pool, walking, cloning, converting>>

\* withLimitedConcurrency starts the thunk of a group: it takes the first
\* filename variant and calls getNaclFileData
GroupStarts == \E k \in DOMAIN editing.groups :
  LET g == editing.groups[k]
  IN  /\ g.pc = "start"
      /\ Cardinality({j \in DOMAIN editing.groups : GroupIsInFlight(editing.groups[j])})
           < DUMP_CONCURRENCY
      /\ GroupBecomes(k, [g EXCEPT !.pc = "get", !.filename = FirstVariant(g.changes)])

\* getNaclFileData returns the text of the file, '' when the store has none,
\* and updateNaclFileData is called
GetNaclFileDataReturns == \E k \in DOMAIN editing.groups :
  LET g == editing.groups[k]
      held == editing.data[g.filename]
  IN  /\ g.pc = "get"
      /\ GroupBecomes(k, [g EXCEPT !.pc = "edit",
                                   !.naclFileData = IF held = NoFile THEN "" ELSE held])

\* updateNaclFileData returns the new buffer: the file is made from the
\* change, or the buffer is given to parseNaclFile
UpdateNaclFileDataReturns == \E k \in DOMAIN editing.groups, buffer \in NewBuffers :
  LET g == editing.groups[k]
  IN  /\ g.pc = "edit"
      /\ IF ShouldNotParse(g.naclFileData, g.changes)
           THEN GroupBecomes(k, [g EXCEPT !.pc = "create", !.buffer = buffer])
           ELSE GroupBecomes(k, [g EXCEPT !.pc = "parse", !.buffer = buffer,
                                          !.parsed = @ + 1])

\* createNaclFileFromChange returns: the added element is the only element
CreateNaclFileFromChangeReturns == \E k \in DOMAIN editing.groups :
  LET g == editing.groups[k]
      elements == <<g.changes[1].after>>
  IN  /\ g.pc = "create"
      /\ GroupBecomes(k, [g EXCEPT
           !.pc = "remove",
           !.out = [filename |-> g.filename, elements |-> elements, errors |-> <<>>,
                    referenced |-> GetElementsReferences(elements),
                    buffer |-> g.buffer]])

\* parseNaclFile returns: toParsedNaclFile of the parser's result
ParseNaclFileReturns == \E k \in DOMAIN editing.groups :
  LET g == editing.groups[k]
      parsed == ToParsedNaclFile(g.filename, Parse(g.buffer))
  IN  /\ g.pc = "parse"
      /\ GroupBecomes(k, [g EXCEPT
           !.pc = "remove",
           !.out = [filename |-> parsed.filename, elements |-> parsed.elements,
                    errors |-> parsed.errors, referenced |-> parsed.referenced,
                    buffer |-> g.buffer]])

\* removeDanglingStaticFiles returns and the thunk returns { ...parsed, buffer }
RemoveDanglingStaticFilesReturns == \E k \in DOMAIN editing.groups :
  /\ editing.groups[k].pc = "remove"
  /\ GroupBecomes(k, [editing.groups[k] EXCEPT !.pc = "done"])

\* an await of the thunk rejects: the catch logs and the thunk returns undefined
GroupFails == \E k \in DOMAIN editing.groups :
  /\ GroupIsInFlight(editing.groups[k])
  /\ GroupBecomes(k, [editing.groups[k] EXCEPT !.pc = "failed", !.out = Undefined])

EditingNext ==
  \/ ChangesAreGrouped
  \/ GroupStarts
  \/ GetNaclFileDataReturns
  \/ UpdateNaclFileDataReturns
  \/ CreateNaclFileFromChangeReturns
  \/ ParseNaclFileReturns
  \/ RemoveDanglingStaticFilesReturns
  \/ GroupFails

Editing == EditingInit /\ [][EditingNext]_vars

(***************************************************************************)
(* getElementReferenced alone: one element with its field types, its       *)
(* annotation types and its value tree, and the set returned for it.       *)
(* An ElemID is [typeName, idType, nameParts] (one adapter); a full name   *)
(* is written as the sequence of its dot-separated parts.                  *)
(***************************************************************************)
\* the most name parts below the top-level element in a reference that is followed
MaxPath == 2

PathParts == <<"a", "b", "c", "d">>

\* ElemID.getFullName: typeName for a type, else typeName.idType.nameParts
GetFullName(id) ==
  IF id.idType = "type" THEN <<id.typeName>>
  ELSE <<id.typeName, id.idType>> \o id.nameParts

\* ElemID.createTopLevelParentID: the identity of the top-level element (a type,
\* or an instance with its name) and the name parts that lead from it to the id
CreateTopLevelParentID(id) ==
  IF id.idType = "type" THEN [parent |-> id, path |-> <<>>]
  ELSE IF id.idType = "instance"
    THEN [parent |-> [id EXCEPT !.nameParts = <<Head(id.nameParts)>>],
          path |-> Tail(id.nameParts)]
    ELSE [parent |-> [typeName |-> id.typeName, idType |-> "type", nameParts |-> <<>>],
          path |-> id.nameParts]

\* ElemID.createNestedID: below a type the first part names the idType
CreateNestedID(parent, parts) ==
  IF parent.idType = "type"
  THEN [typeName |-> parent.typeName, idType |-> Head(parts), nameParts |-> Tail(parts)]
  ELSE [parent EXCEPT !.nameParts = @ \o parts]

\* the types: a primitive or object type by its name, or a container of a type
NamedType(name) == [container |-> FALSE, name |-> name, inner |-> <<>>]

ListOf(type) == [container |-> TRUE, name |-> "list", inner |-> <<type>>]

\* getDeepInnerType
RECURSIVE GetDeepInnerType(_)
GetDeepInnerType(type) ==
  IF type.container THEN GetDeepInnerType(type.inner[1]) ELSE type

\* getTypeOrContainerTypeID(...).getFullName()
GetTypeOrContainerTypeID(type) ==
  IF type.container THEN <<GetDeepInnerType(type).name>> ELSE <<type.name>>

\* the values: a primitive, a reference expression or a list of values; `field` is
\* the type of the field that declares the value (<<>> when none does) and
\* `isIndex` tells that the last part of the value's path is a list index
NoField == <<>>

Primitive(field) ==
  [kind |-> "prim", field |-> field, isIndex |-> FALSE, elemId |-> <<>>, items |-> <<>>]

ReferenceExpression(id, field) ==
  [kind |-> "ref", field |-> field, isIndex |-> FALSE, elemId |-> <<id>>, items |-> <<>>]

ListValue(items, field) ==
  [kind |-> "list", field |-> field, isIndex |-> FALSE, elemId |-> <<>>,
   items |-> [i \in DOMAIN items |-> [items[i] EXCEPT !.isIndex = TRUE, !.field = field]]]

IsReferenceExpression(value) == value.kind = "ref"

\* variant: only the top-level element of a reference is recorded
TransformFuncOfParentOnly(value) ==
  (IF value.field # NoField /\ ~value.isIndex
   THEN <<GetTypeOrContainerTypeID(value.field[1])>> ELSE <<>>)
  \o (IF IsReferenceExpression(value)
      THEN <<GetFullName(CreateTopLevelParentID(value.elemId[1]).parent)>>
      ELSE <<>>)

\* transformFunc: what one value of the tree adds to `referenced`, in order
TransformFunc(value) ==
  (IF value.field # NoField /\ ~value.isIndex
   THEN <<GetTypeOrContainerTypeID(value.field[1])>> ELSE <<>>)
  \o (IF IsReferenceExpression(value)
      THEN LET top == CreateTopLevelParentID(value.elemId[1])
               idType == value.elemId[1].idType
               nestedIds ==
                 [index \in DOMAIN top.path |->
                    CreateNestedID(top.parent,
                      (IF idType # top.parent.idType THEN <<idType>> ELSE <<>>)
                      \o SubSeq(top.path, 1, index))]
           IN  <<GetFullName(top.parent)>>
               \o [index \in DOMAIN nestedIds |-> GetFullName(nestedIds[index])]
      ELSE <<>>)

\* transformElement with strict: false: transformFunc is applied to every value
\* of the tree, a value before the values it holds
RECURSIVE TransformValues(_)
TransformValues(values) ==
  IF values = <<>> THEN <<>>
  ELSE TransformFunc(Head(values)) \o TransformValues(Head(values).items)
       \o TransformValues(Tail(values))

\* getElementReferenced over an element [kind, type, fields, annotationTypes, value]
GetElementReferencedWalking(element) ==
  Uniq((IF element.kind = "object"
        THEN [i \in DOMAIN element.fields |-> GetTypeOrContainerTypeID(element.fields[i])]
        ELSE <<>>)
       \o (IF element.kind = "instance" THEN <<GetTypeOrContainerTypeID(element.type[1])>>
           ELSE <<>>)
       \o [i \in DOMAIN element.annotationTypes |->
             GetTypeOrContainerTypeID(element.annotationTypes[i])]
       \o (IF element.kind \notin {"container", "variable"}
           THEN TransformValues(element.value) ELSE <<>>))

\* the identities a reference expression may hold: the type t, a field of it and
\* what is below the field, the instance t.instance.i and what is below it
Paths == {SubSeq(PathParts, 1, k) : k \in 0 .. MaxPath}

ReferenceTargets ==
  {[typeName |-> "t", idType |-> "type", nameParts |-> <<>>]}
  \cup {[typeName |-> "t", idType |-> "field", nameParts |-> path] : path \in Paths \ {<<>>}}
  \cup {[typeName |-> "t", idType |-> "instance", nameParts |-> <<"i">> \o path] :
          path \in Paths}

FieldTypes == {NamedType("num"), ListOf(ListOf(NamedType("str")))}

Leaves(fields) ==
  {Primitive(field) : field \in fields}
  \cup {ReferenceExpression(id, field) : id \in ReferenceTargets, field \in fields}

ValueTrees ==
  LET leaves == Leaves({NoField} \cup {<<type>> : type \in FieldTypes})
      items == Leaves({NoField})
  IN  {<<x>> : x \in leaves}
      \cup {<<x, y>> : x \in items, y \in items}
      \cup {<<ListValue(its, field)>> :
              its \in {<<x>> : x \in items} \cup {<<x, y>> : x \in items, y \in items},
              field \in {NoField, <<ListOf(NamedType("num"))>>}}

WalkedElements ==
  {[kind |-> "object", type |-> <<>>, fields |-> fields, annotationTypes |-> annos,
    value |-> value] :
     fields \in {<<>>, <<NamedType("num"), ListOf(NamedType("t"))>>},
     annos \in {<<>>, <<NamedType("str")>>}, value \in ValueTrees}
  \cup {[kind |-> kind, type |-> <<NamedType("t")>>, fields |-> <<>>,
         annotationTypes |-> <<>>, value |-> value] :
          kind \in {"instance"}, value \in ValueTrees}
  \cup {[kind |-> "variable", type |-> <<>>, fields |-> <<>>, annotationTypes |-> <<>>,
         value |-> value] : value \in {v \in ValueTrees : Len(v) = 1}}
  \cup {[kind |-> "container", type |-> <<>>, fields |-> <<>>, annotationTypes |-> <<>>,
         value |-> <<>>]}

WalkingInit ==
  /\ store = [f \in Files |-> NoFile]
  /\ statics = TRUE
  /\ cache = TRUE
  /\ state = Undefined
  /\ loads = <<>>
  /\ calls = <<>>
  /\ parsing = NoParsing
  /\ pool = NoPool
  /\ editing = NoEditing
  /\ cloning = NoCloning
  /\ converting = NoConverting
  /\ \E element \in WalkedElements :
       walking = [pc |-> "called", element |-> element, referenced |-> <<>>]

\* getElementReferenced returns the set it collected
GetElementReferencedReturns ==
  /\ walking.pc = "called"
  /\ walking' = [walking EXCEPT !.pc = "returned",
                                !.referenced = GetElementReferencedWalking(walking.element)]
  /\ UNCHANGED <<store, statics, cache, state, loads, calls, parsing, pool, editing,
                 cloning, converting>>

WalkingNext == GetElementReferencedReturns

Walking == WalkingInit /\ [][WalkingNext]_vars

(***************************************************************************)
(* clone: the source and the source that clone() builds from it, each with *)
(* its own store and its own closure variable `state`. The calls on one    *)
(* source run one at a time; the two sources run side by side. A promise   *)
(* of a cold start is named after the source that began it.                *)
(***************************************************************************)
\* number of calls made on the two sources together
MaxCloneCalls == 3

Sources == {"original", "clone"}

IdleCall == [op |-> "none", pc |-> "idle", files |-> <<>>, awaiting |-> Undefined, cold |-> FALSE]

\* the sources that exist
Built == DOMAIN cloning.of

\* the arguments given to the calls on the two sources
CloneSetBatches == {<<File("f1", "inst2")>>, <<File("f2", "type")>>, <<File("f1", "")>>}

CloningInit ==
  /\ store = [f \in Files |-> NoFile]
  /\ statics = TRUE
  /\ cache = TRUE
  /\ state = Undefined
  /\ loads = <<>>
  /\ calls = <<>>
  /\ parsing = NoParsing
  /\ pool = NoPool
  /\ editing = NoEditing
  /\ walking = NoWalking
  /\ converting = NoConverting
  /\ \E st \in InitStores :
       cloning = [pc |-> "built", made |-> 0,
                  of |-> [s \in {"original"} |->
                            [store |-> st, state |-> Undefined, load |-> NoLoad,
                             call |-> IdleCall]]]

\* nothing but the two sources moves
CloningFrame ==
  UNCHANGED <<store, statics, cache, state, loads, calls, parsing, pool, editing,
              walking, converting>>

\* the source s becomes r
SourceBecomes(s, r) == cloning' = [cloning EXCEPT !.of[s] = r] /\ CloningFrame

\* a call is made on the source s
CallIsMade(s, r) ==
  /\ cloning.made < MaxCloneCalls
  /\ cloning.of[s].call.pc = "idle"
  /\ cloning' = [cloning EXCEPT !.of[s] = r, !.made = @ + 1]
  /\ CloningFrame

\* getState of the source s: the promise it returns ...
GetStateOf(s) ==
  IF cloning.of[s].state = Undefined THEN [load |-> s] ELSE cloning.of[s].state

\* ... and the cold start it begins over the store of s when there is no state
GetStateLoadOf(s) ==
  IF cloning.of[s].state = Undefined THEN [pc |-> "list", names |-> <<>>]
  ELSE cloning.of[s].load

\* variant: the clone is built without initState
CloneWithoutState ==
  /\ Built = {"original"}
  /\ cloning' =
       [cloning EXCEPT !.of =
          [s \in Sources |->
             IF s = "original" THEN cloning.of["original"]
             ELSE [store |-> cloning.of["original"].store,
                   state |-> Undefined,
                   load |-> NoLoad,
                   call |-> IdleCall]]]
  /\ CloningFrame

\* clone(): buildNaclFilesSource over the cloned store, cache and static files,
\* with the current `state` as initState
Clone ==
  /\ Built = {"original"}
  /\ cloning' =
       [cloning EXCEPT !.of =
          [s \in Sources |->
             IF s = "original" THEN cloning.of["original"]
             ELSE [store |-> cloning.of["original"].store,
                   state |-> cloning.of["original"].state,
                   load |-> NoLoad,
                   call |-> IdleCall]]]
  /\ CloningFrame

\* setNaclFiles is called on s: its store writes are issued
CloneSetNaclFiles(s, files) ==
  CallIsMade(s, [cloning.of[s] EXCEPT !.call = [IdleCall EXCEPT !.op = "set", !.pc = "write",
                                                              !.files = files]])

\* the store writes have returned, the batch is parsed, and
\* buildNaclFilesStateInner awaits the state (or the cold start it begins)
CloneWrites(s) ==
  LET src == cloning.of[s]
  IN  /\ src.call.pc = "write"
      /\ SourceBecomes(s,
           [store |-> StoreAfterDelete(StoreAfterSet(src.store, src.call.files), src.call.files),
            state |-> GetStateOf(s),
            load |-> GetStateLoadOf(s),
            call |-> [src.call EXCEPT !.pc = "build",
                                      !.cold = (src.state = Undefined),
                                      !.awaiting = GetStateOf(s)]])

\* the snapshot that the call of s publishes
PublishedBy(src) ==
  IF src.call.cold THEN src.call.awaiting.resolved
  ELSE BuildNaclFilesState(ParseNaclFiles(src.call.files), src.call.awaiting.resolved).state

\* state = Promise.resolve(res.state): the call of s publishes and returns
ClonePublishes(s) ==
  LET src == cloning.of[s]
  IN  /\ src.call.pc = "build"
      /\ IsResolved(src.call.awaiting)
      /\ SourceBecomes(s, [src EXCEPT !.state = [resolved |-> PublishedBy(src)],
                                      !.call = IdleCall])

\* clear() is called on s: the clear of the store is issued
CloneClear(s) ==
  CallIsMade(s, [cloning.of[s] EXCEPT !.call = [IdleCall EXCEPT !.op = "clear", !.pc = "clearNacl"]])

\* the store of s is cleared; the clear of the cache is issued
CloneClearsNacl(s) ==
  LET src == cloning.of[s]
  IN  /\ src.call.pc = "clearNacl"
      /\ SourceBecomes(s, [src EXCEPT !.store = [f \in Files |-> NoFile],
                                      !.call.pc = "clearCache"])

\* the last clear has returned: state = undefined
CloneClearReturns(s) ==
  LET src == cloning.of[s]
  IN  /\ src.call.pc = "clearCache"
      /\ SourceBecomes(s, [src EXCEPT !.state = Undefined, !.call = IdleCall])

\* a read is called on s: it awaits getState()
CloneRead(s) ==
  CallIsMade(s, [cloning.of[s] EXCEPT !.state = GetStateOf(s),
                                      !.load = GetStateLoadOf(s),
                                      !.call = [IdleCall EXCEPT !.op = "read", !.pc = "read",
                                                                !.awaiting = GetStateOf(s)]])

\* the read of s has its snapshot and returns
CloneReadReturns(s) ==
  LET src == cloning.of[s]
  IN  /\ src.call.pc = "read"
      /\ IsResolved(src.call.awaiting)
      /\ SourceBecomes(s, [src EXCEPT !.call = IdleCall])

\* the cold start begun by s: naclFilesStore.list() returns
CloneLoadList(s) ==
  LET src == cloning.of[s]
  IN  /\ src.load.pc = "list"
      /\ \E names \in Listings(src.store) :
           SourceBecomes(s, [src EXCEPT !.load = [pc |-> "getFiles", names |-> names]])

\* the cold start begun by s resolves: every holder of its promise, in either
\* source, now holds the snapshot
CloneLoadResolves(s) ==
  LET src == cloning.of[s]
      outcome == [resolved |-> ColdStart(src.store, src.load.names)]
  IN  /\ src.load.pc = "getFiles"
      /\ cloning' =
           [cloning EXCEPT !.of =
              [t \in Built |->
                 [cloning.of[t] EXCEPT
                    !.state = Settle(@, s, outcome),
                    !.call.awaiting = Settle(@, s, outcome),
                    !.load = IF t = s THEN NoLoad ELSE @]]]
      /\ CloningFrame

CloningNext ==
  \/ Clone
  \/ \E s \in Built, files \in CloneSetBatches : CloneSetNaclFiles(s, files)
  \/ \E s \in Built : CloneWrites(s)
  \/ \E s \in Built : ClonePublishes(s)
  \/ \E s \in Built : CloneClear(s)
  \/ \E s \in Built : CloneClearsNacl(s)
  \/ \E s \in Built : CloneClearReturns(s)
  \/ \E s \in Built : CloneRead(s)
  \/ \E s \in Built : CloneReadReturns(s)
  \/ \E s \in Built : CloneLoadList(s)
  \/ \E s \in Built : CloneLoadResolves(s)

Cloning == CloningInit /\ [][CloningNext]_vars

(***************************************************************************)
(* hclConverter (the HCL-to-JS converter of the parser): the root          *)
(* converter with its chain of nested converters, driven by a well-nested  *)
(* sequence of Enter and Exit calls. chain[1] is the root and chain[i + 1] *)
(* is chain[i].nestedConverter; the last converter's nestedConverter is    *)
(* nil. Of JSValue only the presence of the keys that Exit asserts on is   *)
(* kept: "attrs" and "blocks" (set by enterBody), and "expressions".       *)
(***************************************************************************)
\* the number of nodes that are open at once, and the number of nodes of a walk
MaxOpen == 3
MaxNodes == 4

\* the node types given to Enter and Exit
NodeKinds ==
  {"Body", "Blocks", "Block", "Attribute", "TupleConsExpr", "ObjectConsKeyExpr",
   "LiteralValueExpr", "ScopeTraversalExpr"}

\* the node types on which Enter creates a nested converter
ExpressionKinds ==
  {"TemplateExpr", "TupleConsExpr", "ObjectConsExpr", "ObjectConsKeyExpr", "LiteralValueExpr"}

IsMeaningful(kind) == kind \in {"Block", "Attribute"} \cup ExpressionKinds

\* newHclConverter, and what enterExpression adds to it
NewHclConverter(id, expressions) == [id |-> id, body |-> FALSE, expressions |-> expressions]

\* Enter: `if maker.nestedConverter != nil { return maker.nestedConverter.Enter(node) }`
RECURSIVE EnterHandler(_, _)
EnterHandler(chain, i) == IF i < Len(chain) THEN EnterHandler(chain, i + 1) ELSE i

RECURSIVE ExitHandler(_, _)
\* variant: Exit is handed down to the deepest converter, as Enter is
ExitHandlerOfDeepest(chain, i) == Len(chain)

\* Exit: `if maker.nestedConverter != nil && maker.nestedConverter.nestedConverter != nil`
ExitHandler(chain, i) ==
  IF i < Len(chain) /\ i + 1 < Len(chain) THEN ExitHandler(chain, i + 1) ELSE i

\* maker.nestedConverter = converter (nil when converter is <<>>)
SetNested(chain, h, converter) == SubSeq(chain, 1, h) \o converter

\* the switch of Enter, run by the converter chain[h]
EnterNode(chain, h, kind, id) ==
  CASE kind = "Body" -> [chain EXCEPT ![h].body = TRUE]
    [] kind = "Block" -> SetNested(chain, h, <<NewHclConverter(id, FALSE)>>)
    [] kind \in {"Attribute"} \cup ExpressionKinds ->
         SetNested(chain, h, <<NewHclConverter(id, TRUE)>>)
    [] OTHER -> chain

\* the switch of Exit, run by the converter chain[h], panics when it reads through
\* a nestedConverter that is nil or asserts the type of a key that JSValue lacks
ExitPanics(chain, h, kind) ==
  CASE kind \in {"Block", "Attribute"} -> h = Len(chain) \/ ~chain[h].body
    [] kind \in ExpressionKinds -> h = Len(chain) \/ ~chain[h].expressions
    [] OTHER -> FALSE

\* ... and otherwise leaves the chain so
ExitNode(chain, h, kind) ==
  IF IsMeaningful(kind) THEN SetNested(chain, h, <<>>) ELSE chain

NoCallYet == [call |-> "none", kind |-> "none", handler |-> 0, entered |-> 0, parent |-> 0]

ConvertingInit ==
  /\ store = [f \in Files |-> NoFile]
  /\ statics = TRUE
  /\ cache = TRUE
  /\ state = Undefined
  /\ loads = <<>>
  /\ calls = <<>>
  /\ parsing = NoParsing
  /\ pool = NoPool
  /\ editing = NoEditing
  /\ walking = NoWalking
  /\ cloning = NoCloning
  /\ converting = [pc |-> "walking", chain |-> <<NewHclConverter(0, FALSE)>>, open |-> <<>>,
                   made |-> 0, last |-> NoCallYet]

ConvertingFrame ==
  UNCHANGED <<store, statics, cache, state, loads, calls, parsing, pool, editing,
              walking, cloning>>

\* the parent of the deepest nested converter (the root when nothing is nested)
ParentOfDeepest(chain) == chain[IF Len(chain) > 1 THEN Len(chain) - 1 ELSE 1].id

\* root.Enter(node): a node is opened
ConverterEnter(kind) ==
  LET chain == converting.chain
      h == EnterHandler(chain, 1)
  IN  /\ converting.pc = "walking"
      /\ Len(converting.open) < MaxOpen
      /\ converting.made < MaxNodes
      /\ converting' =
           [converting EXCEPT
              !.chain = EnterNode(chain, h, kind, converting.made + 1),
              !.open = Append(@, [kind |-> kind, handler |-> chain[h].id]),
              !.made = @ + 1,
              !.last = [call |-> "Enter", kind |-> kind, handler |-> chain[h].id,
                        entered |-> chain[h].id, parent |-> ParentOfDeepest(chain)]]
      /\ ConvertingFrame

\* root.Exit(node): the node opened last is closed
ConverterExit ==
  LET chain == converting.chain
      h == ExitHandler(chain, 1)
      node == converting.open[Len(converting.open)]
  IN  /\ converting.pc = "walking"
      /\ converting.open # <<>>
      /\ converting' =
           [converting EXCEPT
              !.pc = IF ExitPanics(chain, h, node.kind) THEN "panicked" ELSE @,
              !.chain = IF ExitPanics(chain, h, node.kind) THEN @
                        ELSE ExitNode(chain, h, node.kind),
              !.open = SubSeq(@, 1, Len(@) - 1),
              !.last = [call |-> "Exit", kind |-> node.kind, handler |-> chain[h].id,
                        entered |-> node.handler, parent |-> ParentOfDeepest(chain)]]
      /\ ConvertingFrame

ConvertingNext ==
  \/ \E kind \in NodeKinds : ConverterEnter(kind)
  \/ ConverterExit

Converting == ConvertingInit /\ [][ConvertingNext]_vars

(***************************************************************************)
(* Properties.                                                             *)
(***************************************************************************)
NoCallFailed == \A q \in CallIDs : calls[q].pc # "failed"

\* the call before the call c was a mutating call, and c began as it returned
AfterMutation(c) ==
  c.prev # Undefined /\ c.prev.op \in {"set", "remove", "update"}

\* the call p has just returned from a mutation that went through the warm path
ReturnedWarm(p) ==
  /\ IsMutating(calls[p])
  /\ calls[p].pc = "done"
  /\ calls[p].result # Undefined
  /\ ~calls[p].cold

IsRunning(c) == c.pc \notin {"idle", "queued", "done", "failed"}

\* C2: of the operations given to the wrapper, one that has started running has
\* every operation submitted before it completed: no two operations overlap,
\* they run in the order of submission, and the third waits for the first two
C2_OneAtATimeInOrder ==
  \A p, q \in CallIDs :
    p < q /\ calls[q].pc \notin {"idle", "queued"} => IsFinished(calls[p])

\* the third operation is running, the first two are over
C2_Witness ==
  \E p, q, r \in CallIDs :
    /\ p < q /\ q < r
    /\ IsFinished(calls[p]) /\ IsFinished(calls[q])
    /\ IsRunning(calls[r])

\* the five fields belong together: the indices and the merge are those of the files
IsSnapshot(v) ==
  /\ v.elementsIndex = ElementsIndexOf(v.parsedNaclFiles)
  /\ v.referencedIndex = ReferencedIndexOf(v.parsedNaclFiles)
  /\ v.mergedElements = ColdState(v.parsedNaclFiles).state.mergedElements
  /\ v.mergeErrors = ColdState(v.parsedNaclFiles).state.mergeErrors

HasReturnedRead(p) ==
  calls[p].op = "read" /\ calls[p].pc = "done" /\ calls[p].result # Undefined

\* C3: what a read answers from, whatever mutating calls overlap with it, is one
\* snapshot: the one the promise it awaited resolved to (the snapshot published
\* when the read was called, or the cold start it waited for), whole
C3_ReadSeesOneSnapshot ==
  \A p \in CallIDs :
    HasReturnedRead(p) =>
      /\ calls[p].result.seen = calls[p].awaiting.resolved
      /\ IsSnapshot(calls[p].result.seen)

\* a read has returned the snapshot from before a publication that overtook it
C3_Witness ==
  \E p \in CallIDs :
    /\ HasReturnedRead(p)
    /\ IsResolved(state)
    /\ state.resolved.mergedElements # calls[p].result.seen.mergedElements
    /\ state.resolved.elementsIndex # calls[p].result.seen.elementsIndex

\* the snapshot holds what the batch `files` gave: a file with content has its
\* entry, its identities are merged and indexed under its name; a file left
\* without content has no entry and is in no index
HoldsContribution(snapshot, files) ==
  \A i \in DOMAIN files :
    LET filename == files[i].filename
        parsed == ToParsedNaclFile(filename, Parse(files[i].buffer))
    IN  IF IsEmptyParsed(parsed)
          THEN /\ filename \notin Range(FileNames(snapshot.parsedNaclFiles))
               /\ \A id \in DOMAIN snapshot.elementsIndex :
                    filename \notin Range(snapshot.elementsIndex[id])
          ELSE /\ parsed \in Range(snapshot.parsedNaclFiles)
               /\ \A id \in ElemIDsOf(parsed.elements) :
                    /\ id \in DOMAIN snapshot.mergedElements
                    /\ id \in DOMAIN snapshot.elementsIndex
                    /\ filename \in Range(snapshot.elementsIndex[id])

\* the call p has returned from a mutation, the call before it was a mutation
\* that returned too, and the two wrote files of different names
ReturnedSecondOfTwo(p) ==
  /\ IsMutating(calls[p]) /\ calls[p].pc = "done" /\ calls[p].result # Undefined
  /\ AfterMutation(calls[p])
  /\ NamesOf(calls[p].prev.files) \cap NamesOf(Survivors(calls[p].files)) = {}

\* C4: when two serialized mutating calls that touch different files have both
\* returned, the snapshot holds the contribution of the first and of the second
C4_NoLostUpdate ==
  \A p \in CallIDs :
    ReturnedSecondOfTwo(p) =>
      /\ IsResolved(state)
      /\ HoldsContribution(state.resolved, calls[p].prev.files)
      /\ HoldsContribution(state.resolved, Survivors(calls[p].files))

\* both calls gave a file with an element, and both elements are in the snapshot
C4_Witness ==
  \E p \in CallIDs :
    /\ ReturnedSecondOfTwo(p)
    /\ ~calls[p].prev.cold
    /\ \E i \in DOMAIN calls[p].prev.files : calls[p].prev.files[i].buffer = "type"
    /\ \E i \in DOMAIN calls[p].files : calls[p].files[i].buffer = "inst2"
    /\ IsResolved(state) /\ DOMAIN state.resolved.mergedElements = ElemIDs

\* the index holds the filename f under the identity id
Indexes(index, id, f) == id \in DOMAIN index /\ f \in Range(index[id])

\* every key of the index has files, each of them once
HasNoEmptyEntry(index) ==
  \A id \in DOMAIN index :
    index[id] # <<>> /\ Cardinality(Range(index[id])) = Len(index[id])

\* C5: in the published snapshot, elementsIndex holds a file under an identity
\* exactly when the file's entry has an element of that identity, referencedIndex
\* exactly when the entry's referenced list has it, and no key has no file
C5_IndicesFollowFiles ==
  IsResolved(state) =>
    LET s == state.resolved
        Entry(f) == {x \in Range(s.parsedNaclFiles) : x.filename = f}
    IN  /\ \A id \in ElemIDs, f \in Files :
             /\ Indexes(s.elementsIndex, id, f)
                  <=> \E x \in Entry(f) : id \in ElemIDsOf(x.elements)
             /\ Indexes(s.referencedIndex, id, f)
                  <=> \E x \in Entry(f) : id \in Range(x.referenced)
        /\ DOMAIN s.elementsIndex \subseteq ElemIDs
        /\ DOMAIN s.referencedIndex \subseteq ElemIDs
        /\ HasNoEmptyEntry(s.elementsIndex)
        /\ HasNoEmptyEntry(s.referencedIndex)

\* after a warm batch one identity is held by both files, the other by none
C5_Witness ==
  /\ \E p \in CallIDs : ReturnedWarm(p) /\ calls[p].result.changes # {}
  /\ IsResolved(state)
  /\ InstID \in DOMAIN state.resolved.elementsIndex
  /\ Len(state.resolved.elementsIndex[InstID]) = 2
  /\ TypeID \notin DOMAIN state.resolved.elementsIndex
  /\ TypeID \in DOMAIN state.resolved.referencedIndex

\* C6: in the published snapshot mergedElements has an entry, of that identity,
\* for each identity that has a fragment in a file of parsedNaclFiles, and for
\* no other: its keys are the keys of elementsIndex
C6_MergedKeysAreIndexKeys ==
  IsResolved(state) =>
    LET s == state.resolved
    IN  /\ DOMAIN s.mergedElements =
             UNION {ElemIDsOf(x.elements) : x \in Range(s.parsedNaclFiles)}
        /\ DOMAIN s.mergedElements = DOMAIN s.elementsIndex
        /\ \A id \in DOMAIN s.mergedElements : s.mergedElements[id].elemID = id

\* a warm batch has removed the last fragment of an identity, another is left
C6_Witness ==
  /\ \E p \in CallIDs :
       /\ ReturnedWarm(p)
       /\ \E ch \in calls[p].result.changes : ch.action = "remove"
  /\ IsResolved(state)
  /\ DOMAIN state.resolved.mergedElements # {}

\* the call p has returned from a mutation that gave the file f without content
ReturnedBlank(p, f) ==
  /\ IsMutating(calls[p]) /\ calls[p].pc = "done" /\ calls[p].result # Undefined
  /\ \E x \in Range(Survivors(calls[p].files)) : x.filename = f /\ IsBlank(x.buffer)

IsRepeatedSet(c) == c.op = "set" /\ c.prev # Undefined /\ c.prev.same

\* C8: when a serialized setNaclFiles that repeats the batch of the setNaclFiles
\* just before it publishes, the merged elements stay what they were and the
\* call returns no change
C8_ReingestIsIdempotent ==
  [][\A p \in CallIDs :
       IsRepeatedSet(calls[p]) /\ calls[p].pc = "build" /\ calls'[p].pc = "done" =>
         /\ IsResolved(state) /\ IsResolved(state')
         /\ state'.resolved.mergedElements = state.resolved.mergedElements
         /\ calls'[p].result.changes = {}]_vars

\* a batch with an element has been given twice in a row, both times through
\* the warm path, and the second call has returned
C8_Witness ==
  \E p \in CallIDs :
    /\ IsRepeatedSet(calls[p]) /\ calls[p].pc = "done" /\ calls[p].result # Undefined
    /\ ~calls[p].cold /\ ~calls[p].prev.cold
    /\ \E x \in Range(calls[p].files) : Parse(x.buffer).elements # <<>>
    /\ IsResolved(state) /\ state.resolved.mergeErrors # {}

\* the snapshot a reader would get at once, if there is one
Visible == IF IsResolved(state) THEN state.resolved ELSE Undefined

\* some call fails in this step
SomeCallFails == \E p \in CallIDs : calls[p].pc # "failed" /\ calls'[p].pc = "failed"

\* a mutating call publishes and returns, a clear returns, or a cold start resolves
SomeCallSucceeds ==
  \/ \E p \in CallIDs : IsMutating(calls[p]) /\ calls[p].pc = "build" /\ calls'[p].pc = "done"
  \/ \E p \in CallIDs : calls'[p].op = "clear" /\ calls[p].pc # "done" /\ calls'[p].pc = "done"
  \/ \E k \in CallIDs : loads[k].pc = "getFiles" /\ loads'[k].pc = "none" /\ IsResolved(state')

\* C9: with calls overlapping at will, a step in which a call fails leaves
\* `state` as it is; the snapshot readers get changes only in the step in which
\* a mutating call publishes and returns, a clear returns or a cold start
\* resolves (so a call that is blocked at an await changes nothing); and every
\* snapshot that `state` comes to hold is a whole one
C9_AllOrNothing ==
  [][/\ SomeCallFails => state' = state
     /\ Visible' # Visible => SomeCallSucceeds
     /\ state' # state /\ IsResolved(state') => IsSnapshot(state'.resolved)]_vars

\* a mutating call has failed after writing its file to the store, and the
\* published snapshot is still without that file
C9_Witness ==
  \E p \in CallIDs :
    /\ IsMutating(calls[p]) /\ calls[p].pc = "failed"
    /\ IsResolved(state)
    /\ \E x \in Range(calls[p].files) :
         /\ ~IsBlank(x.buffer) /\ store[x.filename] = x.buffer
         /\ x.filename \notin Range(FileNames(state.resolved.parsedNaclFiles))

\* the read p has returned, and its getState began the cold start
ReturnedColdRead(p) == HasReturnedRead(p) /\ calls[p].cold

\* C10: with calls serialized, a cold start begins only when a call asks for the
\* state and there is none, and there is no other way out of the uninitialized
\* state; a mutating call that ingests a file publishes a snapshot holding what
\* it gave; a clear that returns leaves no state; and a read that cold-starts
\* gets the snapshot of the store as it is then
C10_Lifecycle ==
  [][/\ \A k \in CallIDs :
          loads[k].pc = "none" /\ loads'[k].pc = "list" =>
            state = Undefined /\ state' = [load |-> k] /\ IsRunning(calls'[k])
     /\ state = Undefined /\ state' # Undefined =>
          \E k \in CallIDs : state' = [load |-> k] /\ loads'[k].pc = "list"
     /\ \A p \in CallIDs :
          /\ IsMutating(calls[p]) /\ calls[p].pc = "build" /\ calls'[p].pc = "done"
          /\ Survivors(calls[p].files) # <<>>
          => /\ IsResolved(state')
             /\ HoldsContribution(state'.resolved, Survivors(calls[p].files))
     /\ \A p \in CallIDs :
          calls'[p].op = "clear" /\ calls[p].pc # "done" /\ calls'[p].pc = "done" =>
            state' = Undefined
     /\ \A p \in CallIDs :
          ReturnedColdRead(p)' =>
            \E names \in Listings(store') :
              calls'[p].result.seen = ColdStart(store', names)]_vars

\* a snapshot was published, a clear of the cache alone discarded it, and the
\* read made next has cold-started and returned the files of the store
C10_Witness ==
  \E p \in CallIDs :
    /\ ReturnedColdRead(p)
    /\ calls[p].prev # Undefined /\ calls[p].prev.op = "clear" /\ calls[p].prev.init
    /\ calls[p].result.seen.parsedNaclFiles # <<>>

\* the call p is made in this step, and it is a clear
ClearIsCalled(p) == calls[p].op # "clear" /\ calls'[p].op = "clear"

\* C11: a clear asked to clear the static resources without both the cache and
\* the nacl files fails in the step in which it is called, before any of its
\* clear calls is issued, and the snapshot, the store, the cache and the static
\* files are what they were
C11_ClearRefusesStaticAlone ==
  [][\A p \in CallIDs :
       ClearIsCalled(p) /\ calls'[p].args.staticResources
                        /\ ~(calls'[p].args.cache /\ calls'[p].args.nacl) =>
         /\ calls'[p].pc = "failed"
         /\ state' = state /\ store' = store /\ cache' = cache /\ statics' = statics]_vars

\* such a clear has failed on a source that has a snapshot and files
C11_Witness ==
  \E p \in CallIDs :
    /\ calls[p].op = "clear" /\ calls[p].pc = "failed"
    /\ calls[p].args.staticResources /\ ~calls[p].args.nacl
    /\ IsResolved(state) /\ state.resolved.parsedNaclFiles # <<>>
    /\ statics /\ cache /\ \E f \in Files : store[f] # NoFile

\* the mutating call p publishes and returns in this step
Publishes(p) == IsMutating(calls[p]) /\ calls[p].pc = "build" /\ calls'[p].pc = "done"

\* the identities with a fragment in the entry of one of the files `names`
FragmentsIn(snapshot, names) ==
  UNION {ElemIDsOf(x.elements) :
           x \in {y \in Range(snapshot.parsedNaclFiles) : y.filename \in names}}

\* the two merged maps agree on the identity id
SameMerged(before, after, id) ==
  /\ id \in DOMAIN before <=> id \in DOMAIN after
  /\ id \in DOMAIN before => before[id] = after[id]

\* C12: when a serialized mutating call that gave a file with parse errors
\* publishes, the snapshot has the file's entry with those errors, getErrors
\* reports them, and the merged element of every identity that has no fragment
\* in the files of the batch, neither before nor after, is what it was
C12_ParseErrorsAreData ==
  [][\A p \in CallIDs :
       Publishes(p) =>
         \A x \in Range(Survivors(calls[p].files)) :
           Parse(x.buffer).errors # <<>> =>
             /\ IsResolved(state) /\ IsResolved(state')
             /\ \E e \in Range(state'.resolved.parsedNaclFiles) :
                  /\ e.filename = x.filename
                  /\ e.errors = Parse(x.buffer).errors
                  /\ Range(e.errors) \subseteq Range(GetErrors(state'.resolved).parse)
             /\ \A id \in ElemIDs :
                  id \notin FragmentsIn(state.resolved, NamesOf(calls[p].files))
                         \cup FragmentsIn(state'.resolved, NamesOf(calls[p].files))
                  => SameMerged(state.resolved.mergedElements,
                                state'.resolved.mergedElements, id)]_vars

\* a warm call that gave a file that does not parse has returned, and the
\* element of the other file is still merged
C12_Witness ==
  \E p \in CallIDs :
    /\ ReturnedWarm(p)
    /\ \E x \in Range(calls[p].files) : x.buffer = "bad"
    /\ IsResolved(state)
    /\ GetErrors(state.resolved).parse # <<>>
    /\ DOMAIN state.resolved.mergedElements # {}

\* C13: a setNaclFiles or removeNaclFiles call does not fail because parsing or
\* caching a file of its batch fails (parseNaclFiles has no handler: the
\* rejection of the parser or of the cache is the rejection of the call)
C13_ParsingNeverFailsTheCall ==
  \A p \in CallIDs :
    calls[p].op \in {"set", "remove"} /\ calls[p].pc = "failed" =>
      calls[p].result # [failedAt |-> "parse"]

\* the names of the files of the batch that updateNaclFiles failed to edit or parse
FailedNames(files) ==
  {x.filename : x \in {y \in Range(files) : ~y.ok}}
    \ {x.filename : x \in {y \in Range(files) : y.ok}}

\* the entries the snapshot has for the filename f
EntriesOf(snapshot, f) == {x \in Range(snapshot.parsedNaclFiles) : x.filename = f}

\* the store holds what the batch asked for: the text, or nothing for a blank one
IsWritten(st, files) ==
  \A x \in Range(files) :
    st[x.filename] = IF IsBlank(x.buffer) THEN NoFile ELSE x.buffer

\* C14: while a serialized updateNaclFiles runs, a file of its batch that failed
\* to be edited or parsed is not written to the store; when the call publishes,
\* the files that did not fail are in the store and in the snapshot, and the
\* entry of a file that failed is what it was; when every file failed the call
\* returns no change and leaves the snapshot as it is
C14_UpdateSkipsFailedFiles ==
  [][\A p \in CallIDs :
       calls[p].op = "update" =>
         /\ \A f \in FailedNames(calls[p].files) : store'[f] = store[f]
         /\ Publishes(p) =>
              /\ IsResolved(state) /\ IsResolved(state')
              /\ IsWritten(store', Survivors(calls[p].files))
              /\ HoldsContribution(state'.resolved, Survivors(calls[p].files))
              /\ \A f \in FailedNames(calls[p].files) :
                   EntriesOf(state'.resolved, f) = EntriesOf(state.resolved, f)
         /\ calls[p].pc = "edit" /\ calls'[p].pc = "done" =>
              /\ Survivors(calls[p].files) = <<>>
              /\ calls'[p].result = [changes |-> {}]
              /\ state' = state /\ store' = store]_vars

\* an update of two files has returned: the one that failed is in the store and
\* in the snapshot as before, the other is written and ingested
C14_Witness ==
  \E p \in CallIDs, f, g \in Files :
    /\ calls[p].op = "update" /\ calls[p].pc = "done" /\ calls[p].result # Undefined
    /\ f \in FailedNames(calls[p].files)
    /\ g \in NamesOf(Survivors(calls[p].files))
    /\ store[f] = "inst1" /\ store[g] = "inst2"
    /\ calls[p].result.changes # {}
    /\ IsResolved(state)
    /\ EntriesOf(state.resolved, f) # {} /\ EntriesOf(state.resolved, g) # {}

\* the identities with a fragment in some file of the snapshot
AllFragments(snapshot) == FragmentsIn(snapshot, Files)

\* C15: when a serialized mutating call publishes, an identity that had a
\* fragment in a file of the batch and has none left in any file is in neither
\* mergedElements, elementsIndex nor the result of list, and an identity that
\* has a fragment in a file outside the batch is in all three
C15_LastFragmentRemoved ==
  [][\A p \in CallIDs :
       Publishes(p) /\ IsResolved(state) /\ IsResolved(state') =>
         \A id \in ElemIDs :
           /\ id \in FragmentsIn(state.resolved, NamesOf(calls[p].files))
                /\ id \notin AllFragments(state'.resolved)
              => /\ id \notin DOMAIN state'.resolved.mergedElements
                 /\ id \notin DOMAIN state'.resolved.elementsIndex
                 /\ id \notin List(state'.resolved)
           /\ id \in FragmentsIn(state'.resolved, Files \ NamesOf(calls[p].files))
              => /\ id \in DOMAIN state'.resolved.mergedElements
                 /\ id \in DOMAIN state'.resolved.elementsIndex
                 /\ id \in List(state'.resolved)]_vars

\* a warm call has removed the only fragment of the type, and the instance,
\* which lost a fragment to the same call, is still there from the other file
C15_Witness ==
  \E p \in CallIDs :
    /\ ReturnedWarm(p)
    /\ [action |-> "remove", id |-> TypeID] \in calls[p].result.changes
    /\ IsResolved(state)
    /\ TypeID \notin List(state.resolved)
    /\ InstID \in List(state.resolved)
    /\ InstID \in FragmentsIn(state.resolved, Files \ NamesOf(calls[p].files))

\* the files of the snapshot hold fragments of id with different values
IsConflicting(snapshot, id) ==
  Cardinality(ValsOf(ElementsOfFiles(snapshot.parsedNaclFiles), id)) > 1

\* C16: a snapshot whose files hold conflicting fragments of an identity has
\* exactly one merge error, the one of that identity, and when a serialized
\* call publishes the snapshot in which the conflict is gone because a file of
\* the batch lost its fragment, the merge errors are empty
C16_ConflictThenFix ==
  [][/\ IsResolved(state') =>
          \A id \in ElemIDs :
            IsConflicting(state'.resolved, id) =>
              state'.resolved.mergeErrors = {MergeError(id)}
     /\ \A p \in CallIDs :
          Publishes(p) /\ IsResolved(state) /\ IsResolved(state') =>
            \A id \in ElemIDs :
              IsConflicting(state.resolved, id) /\ ~IsConflicting(state'.resolved, id)
                => state'.resolved.mergeErrors = {}]_vars

\* a warm call took away the fragment with the value that had won the
\* conflict: the instance is modified, still listed, and no merge error is left
C16_Witness ==
  \E p \in CallIDs :
    /\ ReturnedWarm(p)
    /\ \A i \in DOMAIN calls[p].files : IsBlank(calls[p].files[i].buffer)
    /\ [action |-> "modify", id |-> InstID] \in calls[p].result.changes
    /\ IsResolved(state)
    /\ state.resolved.mergeErrors = {}
    /\ InstID \in DOMAIN state.resolved.mergedElements

\* the buffers that are empty or hold only whitespace
IsWhitespace(buffer) == buffer \in {"", " "}

MergedFromFiles(snapshot) ==
  KeyByFullName(MergeElements(ElementsOfFiles(snapshot.parsedNaclFiles)).merged)

\* C18: when a serialized removeNaclFiles publishes, the store holds none of
\* the named files, the snapshot has no entry for them, and every identity
\* that had a fragment in one of them is merged from the fragments the
\* remaining files hold (and is gone if there are none)
C18_RemoveThenGet ==
  [][\A p \in CallIDs :
       Publishes(p) /\ calls[p].op = "remove" /\ IsResolved(state') =>
         /\ \A f \in NamesOf(calls[p].files) :
              /\ store'[f] = NoFile
              /\ EntriesOf(state'.resolved, f) = {}
         /\ IsResolved(state) =>
              \A id \in FragmentsIn(state.resolved, NamesOf(calls[p].files)) :
                SameMerged(MergedFromFiles(state'.resolved),
                           state'.resolved.mergedElements, id)]_vars

\* a warm removeNaclFiles of one file has returned: the file is in neither
\* store nor snapshot, and the instance it held a fragment of is now merged
\* from the other file alone, with another value
C18_Witness ==
  \E p \in CallIDs :
    /\ ReturnedWarm(p)
    /\ calls[p].op = "remove"
    /\ [action |-> "modify", id |-> InstID] \in calls[p].result.changes
    /\ IsResolved(state)
    /\ \A f \in NamesOf(calls[p].files) :
         store[f] = NoFile /\ EntriesOf(state.resolved, f) = {}
    /\ InstID \in FragmentsIn(state.resolved, Files \ NamesOf(calls[p].files))

\* the cache holds a result under the key
IsCached(entries, key) == \E e \in entries : e.key = key

\* C19: in a run of parseNaclFiles, when cache.get returns for a file, a hit
\* makes its task return the ParsedNaclFile of the cached result with the
\* parser never invoked, and a miss invokes the parser for the first time;
\* the parser is invoked nowhere else, and the task of a miss returns with
\* the parser's result stored in the cache and returned as ParsedNaclFile
C19_ParseCacheDiscipline ==
  [][\A i \in DOMAIN parsing.tasks :
       LET t == parsing.tasks[i]
           u == parsing'.tasks[i]
       IN  /\ t.pc = "get" /\ u.pc \notin {"get", "failed"} =>
                IF IsCached(parsing.entries, t.key)
                  THEN /\ u.pc = "done" /\ u.parsed = 0
                       /\ u.out = ToParsedNaclFile(t.file.filename,
                                                   CacheGet(parsing.entries, t.key))
                       /\ parsing'.entries = parsing.entries
                  ELSE u.pc = "parse" /\ u.parsed = 1
           /\ u.parsed # t.parsed => t.pc = "get" /\ ~IsCached(parsing.entries, t.key)
           /\ u.pc = "done" /\ t.pc # "done" /\ t.pc # "get" =>
                /\ t.pc = "put" /\ u.parsed = 1
                /\ [key |-> t.key, result |-> Parse(t.file.buffer)] \in parsing'.entries
                /\ u.out = ToParsedNaclFile(t.file.filename, Parse(t.file.buffer))]_vars

\* a run over two files has returned: one was a hit and never parsed, the
\* other a miss, parsed once and its result is in the cache
C19_Witness ==
  /\ Len(parsing.tasks) = 2
  /\ \A i \in DOMAIN parsing.tasks : parsing.tasks[i].pc = "done"
  /\ parsing.tasks[1].parsed = 0
  /\ parsing.tasks[2].parsed = 1
  /\ [key |-> parsing.tasks[2].key, result |-> Parse(parsing.tasks[2].file.buffer)]
       \in parsing.entries

\* the files of the snapshot whose referenced list holds id
ReferencingFiles(snapshot, id) ==
  {x.filename : x \in {y \in Range(snapshot.parsedNaclFiles) : id \in Range(y.referenced)}}

\* C20: in every published snapshot, the referenced list of a file holds the
\* type of each instance among the file's elements, and
\* getElementReferencedFiles of an identity answers the files whose referenced
\* list holds it, each once and no other
C20_ReferencedFiles ==
  IsResolved(state) =>
    /\ \A x \in Range(state.resolved.parsedNaclFiles) :
         \A e \in Range(x.elements) :
           e.type # "" => e.type \in Range(x.referenced)
    /\ \A id \in ElemIDs :
         LET files == GetElementReferencedFiles(state.resolved, id)
         IN  /\ Range(files) = ReferencingFiles(state.resolved, id)
             /\ Len(files) = Cardinality(Range(files))

\* after a warm call both files hold an instance of the type, and
\* getElementReferencedFiles of the type answers the two of them
C20_Witness ==
  \E p \in CallIDs :
    /\ ReturnedWarm(p)
    /\ IsResolved(state)
    /\ \A f \in Files : InstID \in FragmentsIn(state.resolved, {f})
    /\ Range(GetElementReferencedFiles(state.resolved, TypeID)) = Files
    /\ GetElementReferencedFiles(state.resolved, InstID) = <<>>

\* the same files, processed in the opposite order
Reversed(files) == [i \in DOMAIN files |-> files[Len(files) + 1 - i]]

\* C21: the indices do not depend on the order in which the files are
\* processed: built over the files of a published snapshot taken in the
\* opposite order, elementsIndex and referencedIndex are the ones of the
\* snapshot, the order of the filenames of each identity included
C21_IndexOrderIndependent ==
  IsResolved(state) =>
    LET files == state.resolved.parsedNaclFiles
    IN  /\ ElementsIndexOf(Reversed(files)) = state.resolved.elementsIndex
        /\ ReferencedIndexOf(Reversed(files)) = state.resolved.referencedIndex

\* C22: of the parses of one parseNaclFiles call, and of the getSourceMap
\* reads of one updateNaclFiles or getSourceRanges call, at most 20 are in
\* flight at any moment
C22_BoundedParsesAndReads ==
  pool.site \in {"parseNaclFiles: parse", "updateNaclFiles: getSourceMap",
                 "getSourceRanges: getSourceMap"}
    => pool.inFlight <= 20

\* a parseNaclFiles call over more than 20 files has 20 parses in flight and
\* a file waiting
C22_Witness ==
  /\ pool.site = "parseNaclFiles: parse"
  /\ pool.inFlight = 20
  /\ pool.waiting > 0

\* C23: of the store writes of one mutating call (the store.set and
\* store.delete calls of setNaclFiles, also as the write-back of
\* updateNaclFiles) at most 20 are in flight at any moment
C23_BoundedStoreWrites ==
  pool.site \in {"setNaclFiles: store.set", "setNaclFiles: store.delete"}
    => pool.inFlight <= 20

\* a warm ingest: the call p publishes what the warm path built
IngestsWarm(p) == Publishes(p) /\ ~calls[p].cold

\* the parsed files the call p ingests
IngestedBy(p) == ParseNaclFiles(Survivors(calls[p].files))

\* the affected identity set of the warm ingest of call p
AffectedBy(p) ==
  RelevantElementIDs(calls[p].awaiting.resolved.parsedNaclFiles, IngestedBy(p))

\* the fragments of id in the snapshot, each with its file
FragmentsOf(snapshot, id) ==
  UNION {{<<x.filename, e>> : e \in {d \in Range(x.elements) : d.elemID = id}} :
           x \in Range(snapshot.parsedNaclFiles)}

\* C24: in a warm ingest the affected identity set is the identities of the
\* elements of the batch's new parses together with the identities of the
\* elements the previous snapshot held under the batch's filenames, and every
\* identity whose fragments differ between the previous and the new snapshot
\* is in it
C24_AffectedIdentities ==
  [][\A p \in CallIDs :
       IngestsWarm(p) =>
         /\ AffectedBy(p) =
              UNION {ElemIDsOf(x.elements) : x \in Range(IngestedBy(p))}
              \cup FragmentsIn(calls[p].awaiting.resolved, NamesOf(Survivors(calls[p].files)))
         /\ \A id \in ElemIDs :
              FragmentsOf(calls[p].awaiting.resolved, id) # FragmentsOf(state'.resolved, id)
                => id \in AffectedBy(p)]_vars

\* a warm call put the type where the only fragment of the instance was: the
\* instance, affected by what the file held, is removed, and the type, affected
\* by the new parse, is added
C24_Witness ==
  \E p \in CallIDs :
    /\ ReturnedWarm(p)
    /\ [action |-> "remove", id |-> InstID] \in calls[p].result.changes
    /\ [action |-> "add", id |-> TypeID] \in calls[p].result.changes

\* how often the element e occurs in the sequence
CountOf(elements, e) == Cardinality({i \in DOMAIN elements : elements[i] = e})

\* the fragments the warm ingest of call p hands to the merge engine
HandedToMergeBy(p) ==
  LET allParsed == AllParsed(calls[p].awaiting.resolved.parsedNaclFiles, IngestedBy(p))
  IN  NewElementsToMerge(allParsed,
                         RelevantFiles(ElementsIndexOf(allParsed), AffectedBy(p)),
                         AffectedBy(p))

\* C25: in a warm ingest the fragments handed to the merge engine are the
\* fragments of the affected identities in the files of the new snapshot,
\* each as often as the files hold it, whether its file is in the batch or
\* not, and no fragment of another identity
C25_FragmentsHandedToMerge ==
  [][\A p \in CallIDs :
       IngestsWarm(p) =>
         LET held == ElementsOfFiles(state'.resolved.parsedNaclFiles)
         IN  \A e \in Range(held) \cup Range(HandedToMergeBy(p)) :
               CountOf(HandedToMergeBy(p), e) =
                 IF e.elemID \in AffectedBy(p) THEN CountOf(held, e) ELSE 0]_vars

\* a warm call over one file has returned; the instance has a fragment in
\* that file and one in the other file, which also holds the type, of which
\* the file of the batch has no fragment
C25_Witness ==
  \E p \in CallIDs : \E f, g \in Files :
    /\ ReturnedWarm(p)
    /\ f # g
    /\ NamesOf(calls[p].files) = {f}
    /\ IsResolved(state)
    /\ FragmentsIn(state.resolved, {f}) = {InstID}
    /\ FragmentsIn(state.resolved, {g}) = {TypeID, InstID}
    /\ [action |-> "modify", id |-> InstID] \in calls[p].result.changes

\* the merge errors of the identity id
ErrorsOf(snapshot, id) == {e \in snapshot.mergeErrors : e.elemID = id}

\* C26: a warm ingest leaves the merged element and the merge errors of every
\* identity outside the affected set as they were, and the entry of every
\* file outside the ingested batch as it was
C26_WarmIngestFrame ==
  [][\A p \in CallIDs :
       IngestsWarm(p) =>
         LET before == calls[p].awaiting.resolved
             after == state'.resolved
         IN  /\ \A id \in ElemIDs \ AffectedBy(p) :
                  /\ SameMerged(before.mergedElements, after.mergedElements, id)
                  /\ ErrorsOf(after, id) = ErrorsOf(before, id)
             /\ \A f \in Files \ NamesOf(Survivors(calls[p].files)) :
                  EntriesOf(after, f) = EntriesOf(before, f)]_vars

\* a warm call has added the instance in its one file while the other file,
\* outside the batch, holds the type alone, merged and listed
C26_Witness ==
  \E p \in CallIDs : \E f, g \in Files :
    /\ ReturnedWarm(p)
    /\ f # g
    /\ NamesOf(calls[p].files) = {f}
    /\ calls[p].result.changes = {[action |-> "add", id |-> InstID]}
    /\ IsResolved(state)
    /\ FragmentsIn(state.resolved, {g}) = {TypeID}
    /\ TypeID \in DOMAIN state.resolved.mergedElements

\* C27: the key a task gives to cache.put after a miss is the key it gave to
\* cache.get: filename, lastModified and buffer are equal, for a file without
\* timestamp too
C27_PutKeyIsGetKey ==
  \A i \in DOMAIN parsing.tasks :
    parsing.tasks[i].pc \in {"put", "done"} /\ parsing.tasks[i].parsed = 1 =>
      parsing.tasks[i].key = parsing.tasks[i].looked

\* C28: a serialized updateNaclFiles replaces the published snapshot at most
\* once, at its return: by then the surviving files are in the store, and the
\* new snapshot is the warm path's over the whole surviving batch and the
\* snapshot published until then; with no surviving file it returns no change
\* and leaves store and snapshot alone
C28_UpdateIsOneTransition ==
  [][\A p \in CallIDs :
       calls[p].op = "update" =>
         /\ IsRunning(calls[p]) /\ IsResolved(state) /\ state' # state => Publishes(p)
         /\ Publishes(p) =>
              /\ Survivors(calls[p].files) # <<>>
              /\ ~calls[p].cold /\ IsResolved(state)
              /\ store' = store /\ IsWritten(store, Survivors(calls[p].files))
              /\ state' = [resolved |-> WarmState(IngestedBy(p), state.resolved).state]
              /\ calls'[p].result =
                   [changes |-> WarmState(IngestedBy(p), state.resolved).changes]
         /\ IsRunning(calls[p]) /\ calls'[p].pc = "done" /\ ~Publishes(p) =>
              /\ Survivors(calls[p].files) = <<>>
              /\ calls'[p].result = [changes |-> {}]
              /\ state' = state /\ store' = store]_vars

\* an updateNaclFiles over two files has returned: both are in the store and
\* in the snapshot, and the change list is not empty
C28_Witness ==
  \E p \in CallIDs :
    /\ calls[p].op = "update" /\ calls[p].pc = "done" /\ calls[p].result # Undefined
    /\ NamesOf(Survivors(calls[p].files)) = Files
    /\ \A f \in Files : store[f] # NoFile
    /\ IsResolved(state)
    /\ \A f \in Files : EntriesOf(state.resolved, f) # {}
    /\ calls[p].result.changes # {}

\* the filenames of the changes of a group
VariantsOf(group) == {group.changes[i].filename : i \in DOMAIN group.changes}

\* C29: the changes of an updateNaclFiles are split into groups by lower-cased
\* filename: every change is in one group, the changes of a group differ at
\* most in the letter case of their filenames and two groups never agree on
\* the lower-cased filename; the file a group reads and returns is the first,
\* in the order of sort(), of the filename variants of its changes
C29_GroupedByLowerCase ==
  editing.stage = "grouped" =>
    /\ \A c \in Range(editing.changes) :
         CountOf(editing.changes, c) =
           CountOf(Flatten([k \in DOMAIN editing.groups |-> editing.groups[k].changes]), c)
    /\ \A k, j \in DOMAIN editing.groups :
         \A a \in VariantsOf(editing.groups[k]), b \in VariantsOf(editing.groups[j]) :
           (k = j) <=> (ToLowerCase(a) = ToLowerCase(b))
    /\ \A k \in DOMAIN editing.groups :
         LET g == editing.groups[k]
         IN  /\ g.pc # "start" =>
                  /\ g.filename \in VariantsOf(g)
                  /\ \A f \in VariantsOf(g) : ~ComesBefore(f, g.filename)
             /\ g.pc \in {"edit", "create", "parse", "remove", "done"} =>
                  g.naclFileData = IF editing.data[g.filename] = NoFile THEN ""
                                   ELSE editing.data[g.filename]
             /\ g.pc \in {"remove", "done"} => g.out.filename = g.filename

\* two changes, the first located in a.nacl and the second in A.nacl, made one
\* group, which has read and returned A.nacl, a file with another text than a.nacl
C29_Witness ==
  /\ Len(editing.changes) = 2
  /\ editing.changes[1].filename = "a.nacl"
  /\ editing.changes[2].filename = "A.nacl"
  /\ editing.data["A.nacl"] = "inst1"
  /\ editing.data["a.nacl"] = " "
  /\ Len(editing.groups) = 1
  /\ editing.groups[1].pc = "done"
  /\ editing.groups[1].naclFileData = "inst1"
  /\ editing.groups[1].out.filename = "A.nacl"

\* C30: when updateNaclFileData has returned for a file, the parser is left
\* out exactly if the text read was empty and the file has one change, the
\* addition of a whole element, and then what the file's thunk returns has that
\* element as its only element and no errors; otherwise the parser is invoked,
\* once, on the new buffer, and the thunk returns what it made of it
C30_SkipsTheParser ==
  [][\A k \in DOMAIN editing.groups :
       LET g == editing.groups[k]
           h == editing'.groups[k]
           one == /\ g.naclFileData = ""
                  /\ Len(g.changes) = 1
                  /\ g.changes[1].action = "add"
                  /\ "elemID" \in DOMAIN g.changes[1].after
       IN  /\ g.pc = "edit" /\ h.pc \notin {"edit", "failed"} =>
                IF one THEN h.pc = "create" /\ h.parsed = 0
                       ELSE h.pc = "parse" /\ h.parsed = 1
           /\ h.parsed # g.parsed => g.pc = "edit" /\ ~one
           /\ g.pc = "create" /\ h.pc = "remove" =>
                /\ h.out.elements = <<g.changes[1].after>>
                /\ h.out.errors = <<>>
                /\ h.parsed = 0
           /\ g.pc = "parse" /\ h.pc = "remove" =>
                /\ h.out.elements = Parse(g.buffer).elements
                /\ h.out.errors = Parse(g.buffer).errors
                /\ h.parsed = 1]_vars

\* two files have been edited: one had no text and got one added element,
\* which is its only element without the parser having run; the other had a
\* text, got the same kind of change and was parsed, with errors
C30_Witness ==
  /\ Len(editing.groups) = 2
  /\ \A k \in DOMAIN editing.groups :
       /\ editing.groups[k].pc = "done"
       /\ Len(editing.groups[k].changes) = 1
       /\ editing.groups[k].changes[1].action = "add"
       /\ IsElement(editing.groups[k].changes[1].after)
  /\ editing.groups[1].parsed = 0
  /\ editing.groups[1].out.elements = <<TypeElem>>
  /\ editing.groups[2].naclFileData = " "
  /\ editing.groups[2].parsed = 1
  /\ editing.groups[2].out.errors # <<>>

\* the reference expressions held anywhere in a sequence of values
RECURSIVE ReferencesIn(_)
ReferencesIn(values) ==
  IF values = <<>> THEN {}
  ELSE (IF Head(values).kind = "ref" THEN {Head(values).elemId[1]} ELSE {})
       \cup ReferencesIn(Head(values).items) \cup ReferencesIn(Tail(values))

\* the full names a reference to `name` is to mark: that of the top-level element
\* (typeName, or typeName.instance.name) and every longer prefix that names an
\* identity, `name` itself included
PrefixIdentities(name) ==
  LET top == IF Len(name) >= 3 /\ name[2] = "instance" THEN 3 ELSE 1
  IN  {SubSeq(name, 1, k) : k \in {top} \cup {n \in 3 .. Len(name) : n > top}}

MarksEveryReference ==
  \A id \in ReferencesIn(walking.element.value) :
    PrefixIdentities(GetFullName(id)) \subseteq Range(walking.referenced)

IsWalked(element) == element.kind \notin {"container", "variable"}

\* C31 as stated: a reference expression anywhere in the value tree of an element
\* marks the top-level identity and every nested prefix identity of its path as
\* referenced, whatever the element is.
C31_ReferenceMarksPrefixes ==
  walking.pc = "returned" => MarksEveryReference

\* C31 amended: a reference expression anywhere in the value tree of an element that
\* is neither a container type nor a variable marks the top-level identity and every
\* nested prefix identity of its path as referenced; for a variable the tree is not
\* walked and the returned set is empty.
C31_WalkedReferenceMarksPrefixes ==
  walking.pc = "returned" =>
    /\ IsWalked(walking.element) => MarksEveryReference
    /\ walking.element.kind = "variable" => walking.referenced = <<>>

\* getElementReferenced returned for an instance that holds, in a list, a reference
\* two parts below the instance t.instance.i
C31_Witness ==
  /\ walking.pc = "returned"
  /\ walking.element.kind = "instance"
  /\ \E v \in Range(walking.element.value) :
       /\ v.kind = "list"
       /\ \E id \in ReferencesIn(v.items) :
            GetFullName(id) = <<"t", "instance", "i", "a", "b">>
  /\ {<<"t", "instance", "i">>, <<"t", "instance", "i", "a">>,
      <<"t", "instance", "i", "a", "b">>} \subseteq Range(walking.referenced)

\* the clear call p takes a step: it is called, or one of its clear calls returns
ClearMoves(p) ==
  \/ ClearIsCalled(p)
  \/ /\ calls[p].op = "clear" /\ calls'[p].op = "clear"
     /\ calls[p].pc \in {"clearStatic", "clearNacl", "clearCache"}
     /\ calls'[p].pc # calls[p].pc

StoreIsEmpty(st) == \A f \in Files : st[f] = NoFile

\* C32: in every step of a serialized clear that was not refused, the static files
\* change only at the stage that clears them and only when the flag staticResources
\* is set, the store only at its stage, when nacl is set and after the static files
\* were cleared if asked for, the cache only at its stage, when cache is set and
\* after the two others; the step in which clear returns leaves no snapshot and
\* every resource whose flag is set cleared, whatever the flags; the step in which
\* one of the clear calls fails changes nothing and ends the call
C32_ClearOrder ==
  [][\A p \in CallIDs :
       ClearMoves(p) /\ ~ClearThrows(calls'[p].args) =>
         LET c == calls[p]
             args == calls'[p].args
         IN  /\ statics' # statics =>
                  args.staticResources /\ c.pc = "clearStatic" /\ ~statics'
             /\ store' # store =>
                  /\ args.nacl /\ c.pc = "clearNacl" /\ StoreIsEmpty(store')
                  /\ args.staticResources => ~statics
             /\ cache' # cache =>
                  /\ args.cache /\ c.pc = "clearCache" /\ ~cache'
                  /\ args.staticResources => ~statics
                  /\ args.nacl => StoreIsEmpty(store)
             /\ calls'[p].pc = "done" =>
                  /\ state' = Undefined
                  /\ args.staticResources => ~statics'
                  /\ args.nacl => StoreIsEmpty(store')
                  /\ args.cache => ~cache'
             /\ calls'[p].pc # "done" => state' = state
             /\ calls'[p].pc = "failed" =>
                  /\ statics' = statics /\ store' = store /\ cache' = cache
                  /\ IsFinished(calls'[p])]_vars

\* a clear of everything has cleared the static files and failed at the clear of
\* the store: the files, the cache and the snapshot are still there
C32_Witness ==
  \E p \in CallIDs :
    /\ calls[p].op = "clear" /\ calls[p].pc = "failed"
    /\ calls[p].args = DefaultClearArgs
    /\ calls[p].result = [failedAt |-> "clearNacl"]
    /\ ~statics /\ cache /\ ~StoreIsEmpty(store)
    /\ IsResolved(state) /\ state.resolved.parsedNaclFiles # <<>>

\* the mutating call p has returned in this state: its result is still at hand
ReturnedPublished(p) ==
  /\ IsMutating(calls[p]) /\ calls[p].pc = "done" /\ calls[p].result # Undefined
  /\ IsResolved(state)

\* every mutating call that runs returns with a snapshot published, and every
\* queued operation starts
Progress ==
  /\ \A p \in 1 .. MaxQueued :
       (IsMutating(calls[p]) /\ IsRunning(calls[p])) ~> ReturnedPublished(p)
  /\ \A p \in 1 .. MaxQueued :
       (calls[p].pc = "queued") ~> (calls[p].pc \notin {"idle", "queued"})

\* the cold start begun by call p hands the files it read to parseNaclFiles
ParsesStore(p) ==
  loads[p].pc = "getFiles" /\ loads'[p].pc = "none" /\ IsResolved(calls'[p].awaiting)

\* the files of the store that the cold start of call p parses and that the call's
\* own parseNaclFiles has parsed before
ParsedAgain(p) ==
  IF calls[p].op \in {"set", "remove"} /\ calls[p].pc = "build"
  THEN NamesOf(GetFiles(store, loads[p].names)) \cap NamesOf(calls[p].files)
  ELSE {}

\* no stage of a call is entered a second time: the batch is handed to
\* parseNaclFiles once, and the call begins at most one cold start
NoRetry ==
  \A p \in CallIDs :
    /\ calls[p].pc = "parse" => calls'[p].pc \in {"parse", "build", "failed"}
    /\ calls[p].pc = "build" => calls'[p].pc \in {"build", "done", "failed"}
    /\ calls[p].pc \in {"build", "done", "failed"} => calls'[p].pc # "parse"
    /\ calls[p].op = "update" /\ calls[p].pc # "edit" => calls'[p].pc # "edit"
    /\ loads'[p].pc = "list" /\ loads[p].pc # "list" =>
         loads[p].pc = "none" /\ calls[p].pc # "build"

\* C33 as stated: with every external call returning and under fairness, every
\* mutating call returns with its snapshot published and every queued operation
\* starts, and no file is parsed twice by one call.
C33_CompletesParsingOnce ==
  /\ Progress
  /\ [][NoRetry /\ \A p \in CallIDs : ParsesStore(p) => ParsedAgain(p) = {}]_vars

\* C33 amended: with every external call returning and under fairness, every
\* mutating call returns with its snapshot published and every queued operation
\* starts; a call hands its batch to parseNaclFiles once and begins at most one
\* cold start, with no retry; the cold start of a setNaclFiles call made on an
\* uninitialized source parses the files of the store, among them exactly the
\* files of the batch that the call has written, not deleted, and parsed already.
C33_CompletesWithoutRetry ==
  /\ Progress
  /\ [][/\ NoRetry
        /\ \A p \in CallIDs :
             ParsesStore(p) /\ calls[p].op \in {"set", "remove"} =>
               /\ calls[p].cold
               /\ ParsedAgain(p) =
                    {x.filename : x \in {y \in Range(calls[p].files) :
                                           calls[p].op = "set" /\ ~IsBlank(y.buffer)}}
                      \ {x.filename : x \in {y \in Range(calls[p].files) :
                                                IsBlank(y.buffer)}}]_vars

\* a setNaclFiles call queued behind another operation was made on an uninitialized
\* source with a file that is not blank, and has returned with a snapshot published
C33_Witness ==
  \E p \in CallIDs :
    /\ p > 1 /\ ReturnedPublished(p)
    /\ calls[p].op = "set" /\ calls[p].cold /\ HasNonBlank(calls[p].files)

\* a read is called in this step: its getState has run
ReadIsCalled(p) == calls[p].pc = "idle" /\ calls'[p].op = "read"

\* the cold start k is settled in this step
LoadSettles(k) == loads[k].pc # "none" /\ loads'[k].pc = "none"

\* C34: a read called while there is no state begins the cold start (the one listing
\* of the store) and leaves its promise in `state`; a read called while `state` holds
\* a promise, pending or resolved, begins no cold start and awaits that very promise;
\* when a cold start resolves, every call that awaits it holds one and the same
\* snapshot, the one `state` holds if the promise is still there; and a read returns
\* the snapshot it awaited
C34_LoadsOnce ==
  [][/\ \A p \in CallIDs :
          ReadIsCalled(p) =>
            IF state = Undefined
              THEN /\ loads'[p].pc = "list" /\ calls'[p].awaiting = [load |-> p]
                   /\ state' = [load |-> p]
                   /\ \A k \in CallIDs \ {p} : loads'[k] = loads[k]
              ELSE /\ loads' = loads /\ state' = state
                   /\ calls'[p].awaiting = state
     /\ \A k \in CallIDs :
          LoadSettles(k) =>
            \A p \in CallIDs :
              calls[p].awaiting = [load |-> k] =>
                /\ \A q \in CallIDs :
                     calls[q].awaiting = [load |-> k] =>
                       calls'[q].awaiting = calls'[p].awaiting
                /\ state = [load |-> k] => state' = calls'[p].awaiting
     /\ \A p \in CallIDs :
          calls[p].op = "read" /\ calls[p].pc = "read" /\ calls'[p].pc = "done" =>
            calls'[p].result.seen = calls[p].awaiting.resolved]_vars

\* two reads were called while there was no snapshot: the first began the cold
\* start, which has listed the files of the store, the second began none, and both
\* await the one promise that `state` holds
C34_Witness ==
  /\ calls[1].op = "read" /\ calls[2].op = "read"
  /\ calls[1].pc = "read" /\ calls[2].pc = "read"
  /\ calls[1].awaiting = [load |-> 1] /\ calls[2].awaiting = [load |-> 1]
  /\ state = [load |-> 1]
  /\ loads[1].pc = "getFiles" /\ loads[1].names # <<>>
  /\ loads[2].pc = "none"

\* C35: a serialized setNaclFiles or removeNaclFiles takes the cold branch only
\* when no snapshot was published when it was made; it then returns an empty change
\* list and publishes the cold start of the store as its own writes left it, its
\* parsed batch playing no part
C35_ColdPathIgnoresBatch ==
  [][\A p \in CallIDs :
       Publishes(p) /\ calls[p].op \in {"set", "remove"} =>
         /\ calls[p].cold => ~calls[p].init
         /\ calls[p].cold =>
              /\ calls'[p].result.changes = {}
              /\ IsWritten(store, calls[p].files)
              /\ \E names \in Listings(store) :
                   state' = [resolved |-> ColdStart(store, names)]]_vars

\* a setNaclFiles made on an uninitialized source has written the type t, which no
\* file held, next to a file that holds an instance: it has returned no change, and
\* the published snapshot has the type and the instance
C35_Witness ==
  \E p \in CallIDs :
    /\ calls[p].op = "set" /\ calls[p].pc = "done" /\ calls[p].cold
    /\ calls[p].result = [changes |-> {}]
    /\ Len(calls[p].files) = 1
    /\ IsResolved(state)
    /\ {TypeID, InstID} \subseteq DOMAIN state.resolved.mergedElements

\* the snapshot and the store agree on the file set
AgreesWithStore(snapshot, st) ==
  /\ Range(FileNames(snapshot.parsedNaclFiles)) \subseteq Names(st)
  /\ \A f \in Names(st) :
       NotEmptyParsed(ToParsedNaclFile(f, Parse(st[f]))) =>
         f \in Range(FileNames(snapshot.parsedNaclFiles))

\* C36 as stated: when a mutating call has returned, every filename of the
\* snapshot's parsedNaclFiles is in the store, and every file of the store that
\* parses to an element or an error is a key of parsedNaclFiles.
C36_SnapshotAgreesWithStore ==
  \A p \in CallIDs :
    IsMutating(calls[p]) /\ calls[p].pc = "done" /\ IsResolved(state) =>
      AgreesWithStore(state.resolved, store)

\* the snapshot has the parse of every file of the batch that is not blank
KeepsUpdate(snapshot, files) ==
  \A x \in Range(files) :
    ~IsBlank(x.buffer) =>
      EntriesOf(snapshot, x.filename) = {ToParsedNaclFile(x.filename, Parse(x.buffer))}

\* the setNaclFiles call p publishes in this step
SetPublishes(p) ==
  calls[p].op = "set" /\ calls[p].pc = "build" /\ calls'[p].pc = "done"

\* the setNaclFiles call q has returned in the step before, while another call
\* was running
SetHasReturned(q) ==
  calls[q].op = "set" /\ calls[q].pc = "done" /\ calls[q].result # Undefined

\* C37 as stated: when a setNaclFiles call publishes right after an overlapping
\* setNaclFiles call on other files has published, the snapshot it publishes has the
\* parsed files of both calls.
C37_OverlappingSetsKeepBoth ==
  [][\A p, q \in CallIDs :
       /\ p # q /\ SetPublishes(p) /\ SetHasReturned(q)
       /\ NamesOf(calls[p].files) \cap NamesOf(calls[q].files) = {}
       => /\ IsResolved(state')
          /\ KeepsUpdate(state'.resolved, calls[p].files)
          /\ KeepsUpdate(state'.resolved, calls[q].files)]_vars

\* C37 amended: a setNaclFiles call that finds a snapshot publishes the snapshot it
\* awaited with the entries of its own files replaced (the parse of a file that is
\* not blank, nothing for a blank one); the entry of every other file is the one of
\* the awaited snapshot, whatever another call has published since.
C37_SetPublishesOverAwaited ==
  [][\A p \in CallIDs :
       SetPublishes(p) /\ ~calls[p].cold =>
         /\ IsResolved(state')
         /\ KeepsUpdate(state'.resolved, calls[p].files)
         /\ \A x \in Range(calls[p].files) :
              IsBlank(x.buffer) => EntriesOf(state'.resolved, x.filename) = {}
         /\ \A f \in Files \ NamesOf(calls[p].files) :
              EntriesOf(state'.resolved, f) = EntriesOf(calls[p].awaiting.resolved, f)]_vars

\* two calls have returned, the later one a setNaclFiles that found a snapshot; the
\* store holds a file that the earlier call wrote, and the snapshot published last
\* does not have its parse
C37_Witness ==
  \E p, q \in CallIDs :
    /\ p # q /\ calls[q].pc = "done" /\ SetHasReturned(p) /\ ~calls[p].cold
    /\ IsResolved(state)
    /\ \E f \in Files \ NamesOf(calls[p].files) :
         /\ store[f] = "inst2"
         /\ EntriesOf(state.resolved, f) # {ToParsedNaclFile(f, Parse("inst2"))}

\* a mutating call or a clear on the source s takes a step
MutatesOrClears(s) ==
  /\ cloning'.of[s] # cloning.of[s]
  /\ {cloning.of[s].call.op, cloning'.of[s].call.op} \cap {"set", "clear"} # {}

\* what is read through `state` is as before: the same promise, or the snapshot
\* that the pending promise was a promise of
SameSnapshot(before, after) ==
  \/ after = before
  \/ before # Undefined /\ ~IsResolved(before) /\ IsResolved(after)

\* C38: clone() gives the clone the `state` of the original (its snapshot, the
\* pending promise of it, or none) and a store equal to the original's, and leaves
\* the original as it is; afterwards no step of a setNaclFiles or clear on one of
\* the two changes the store of the other or what is read through its `state`.
C38_CloneIsIndependent ==
  [][/\ DOMAIN cloning.of = {"original"} /\ DOMAIN cloning'.of = Sources =>
          /\ cloning'.of["clone"].state = cloning.of["original"].state
          /\ cloning'.of["clone"].store = cloning.of["original"].store
          /\ cloning'.of["original"] = cloning.of["original"]
     /\ \A s, t \in DOMAIN cloning.of \cap DOMAIN cloning'.of :
          s # t /\ MutatesOrClears(s) =>
            /\ cloning'.of[t].store = cloning.of[t].store
            /\ SameSnapshot(cloning.of[t].state, cloning'.of[t].state)]_vars

\* the clone was built and holds a snapshot, and so does the original; the two
\* snapshots differ, and one source holds a file that the other does not
C38_Witness ==
  /\ DOMAIN cloning.of = Sources
  /\ IsResolved(cloning.of["original"].state) /\ IsResolved(cloning.of["clone"].state)
  /\ cloning.of["original"].state # cloning.of["clone"].state
  /\ cloning.of["original"].store # cloning.of["clone"].store
  /\ cloning.of["original"].call.pc = "idle" /\ cloning.of["clone"].call.pc = "idle"

\* the nodes that are open and on which Enter created a converter
OpenMeaningful == {i \in DOMAIN converting.open : IsMeaningful(converting.open[i].kind)}

\* C39: in a well-nested sequence of Enter and Exit calls on the root converter,
\* the Exit of a block, attribute or expression node is run by the converter that
\* ran the matching Enter, which is the parent of the deepest nested converter;
\* while no call has panicked the chain has one nested converter per open such
\* node, and with every node closed the root's nestedConverter is nil.
C39_ExitMatchesEnter ==
  /\ converting.last.call = "Exit" /\ IsMeaningful(converting.last.kind) =>
       /\ converting.last.handler = converting.last.entered
       /\ converting.last.handler = converting.last.parent
  /\ converting.pc = "walking" =>
       /\ Len(converting.chain) - 1 = Cardinality(OpenMeaningful)
       /\ converting.open = <<>> => Len(converting.chain) = 1

\* a walk of MaxNodes nodes that entered the body of the root has closed every node,
\* the last of them a block, attribute or expression node, and no call has panicked
C39_Witness ==
  /\ converting.pc = "walking"
  /\ converting.made = MaxNodes
  /\ converting.open = <<>>
  /\ converting.last.call = "Exit" /\ IsMeaningful(converting.last.kind)
  /\ converting.chain[1].body
====
